---- MODULE Spec2Model ----
(***************************************************************************)
(* Day 7 (No Space Left On Device): the directory tree of day_7.rs, its    *)
(* populating operations, the navigation commands, the aggregate queries,  *)
(* the command parser and the replay of an input file by run.              *)
(*                                                                         *)
(* Every Rc<RefCell<DirectoryEntry>> allocation is a cell of `heap`; a     *)
(* DirectoryNode handle is the index of its cell.  Option values are       *)
(* sequences: None is <<>> and Some(x) is <<x>>.  Strings are sequences of *)
(* one-character strings, so that trimming, slicing and the regular        *)
(* expressions act on characters.                                          *)
(***************************************************************************)
EXTENDS Integers, Sequences, FiniteSets, TLC

VARIABLES heap, live, cursor, last, root_held,
          input, part_2, build, commands, pc, out,
          cpu, cpu_script, cpu_ran, cpu_pc,
          rope, rope_script,
          cargo, cargo_last,
          stream, marker_length, start_marker,
          argv, main_pc, specific_challenge, ran, exit_code

\* the tree and the handles on it
treevars == <<heap, live, cursor, last, root_held>>
\* one call of run: the text it reads, its argument, the build it was
\* compiled as, the parsed commands not replayed yet, where it stands and
\* what it has printed
runvars == <<input, part_2, build, commands, pc, out>>
\* day 10: the CPU, the commands its caller issues, how many were run and
\* whether the caller still runs or has panicked
cpuvars == <<cpu, cpu_script, cpu_ran, cpu_pc>>
\* day 9: the rope and the calls its caller still has to make
ropevars == <<rope, rope_script>>
\* day 5: the cargo and the last call made on it
cargovars == <<cargo, cargo_last>>
\* day 6: the arguments of get_start_marker and what it returned
markervars == <<stream, marker_length, start_marker>>
\* main: the arguments of the process, where main stands, what
\* parse_arguments returned, the solver calls made and the exit status
mainvars == <<argv, main_pc, specific_challenge, ran, exit_code>>
\* the puzzles other than day 7
othervars == <<cpuvars, ropevars, cargovars, markervars, mainvars>>
vars == <<treevars, runvars, othervars>>

\* ------------------------------------------------------------------ bounds
MaxNodes == 3
MaxSize == 2
MaxThreshold == 4

\* ----------------------------------------------------------- Option values
None == <<>>
Some(x) == <<x>>

\* ------------------------------------------------------------- characters
\* A character is a string of one character.  The characters of the model
\* are U+0009..U+000D, U+0020..U+005F, U+0061..U+007E, U+0085 and
\* U+00A0..U+00FF, each table below in the order of the code points.  The
\* operators on characters are defined for these characters only: code has
\* no value for another one.
Controls == <<"\t", "\n", "", "\f", "\r">>
AsciiFrom20 ==
    <<" ", "!", "\"", "#", "$", "%", "&", "'", "(", ")", "*", "+",
      ",", "-", ".", "/", "0", "1", "2", "3", "4", "5", "6", "7",
      "8", "9", ":", ";", "<", "=", ">", "?", "@", "A", "B", "C",
      "D", "E", "F", "G", "H", "I", "J", "K", "L", "M", "N", "O",
      "P", "Q", "R", "S", "T", "U", "V", "W", "X", "Y", "Z", "[",
      "\\", "]", "^", "_">>
AsciiFrom61 ==
    <<"a", "b", "c", "d", "e", "f", "g", "h", "i", "j", "k", "l",
      "m", "n", "o", "p", "q", "r", "s", "t", "u", "v", "w", "x",
      "y", "z", "{", "|", "}", "~">>
NextLine == ""
Latin1FromA0 ==
    <<" ", "¡", "¢", "£", "¤", "¥", "¦", "§", "¨", "©", "ª", "«",
      "¬", "­", "®", "¯", "°", "±", "²", "³", "´", "µ", "¶", "·",
      "¸", "¹", "º", "»", "¼", "½", "¾", "¿", "À", "Á", "Â", "Ã",
      "Ä", "Å", "Æ", "Ç", "È", "É", "Ê", "Ë", "Ì", "Í", "Î", "Ï",
      "Ð", "Ñ", "Ò", "Ó", "Ô", "Õ", "Ö", "×", "Ø", "Ù", "Ú", "Û",
      "Ü", "Ý", "Þ", "ß", "à", "á", "â", "ã", "ä", "å", "æ", "ç",
      "è", "é", "ê", "ë", "ì", "í", "î", "ï", "ð", "ñ", "ò", "ó",
      "ô", "õ", "ö", "÷", "ø", "ù", "ú", "û", "ü", "ý", "þ", "ÿ">>
DigitChars == <<"0","1","2","3","4","5","6","7","8","9">>

\* the code point of a character (char as u32)
code(c) ==
    IF \E i \in DOMAIN Controls : Controls[i] = c
    THEN 8 + (CHOOSE i \in DOMAIN Controls : Controls[i] = c)
    ELSE IF \E i \in DOMAIN AsciiFrom20 : AsciiFrom20[i] = c
    THEN 31 + (CHOOSE i \in DOMAIN AsciiFrom20 : AsciiFrom20[i] = c)
    ELSE IF \E i \in DOMAIN AsciiFrom61 : AsciiFrom61[i] = c
    THEN 96 + (CHOOSE i \in DOMAIN AsciiFrom61 : AsciiFrom61[i] = c)
    ELSE IF c = NextLine THEN 133
    ELSE 159 + (CHOOSE i \in DOMAIN Latin1FromA0 : Latin1FromA0[i] = c)

Chars ==
    {Controls[i] : i \in DOMAIN Controls}
    \cup {AsciiFrom20[i] : i \in DOMAIN AsciiFrom20}
    \cup {AsciiFrom61[i] : i \in DOMAIN AsciiFrom61}
    \cup {NextLine}
    \cup {Latin1FromA0[i] : i \in DOMAIN Latin1FromA0}

\* char::len_utf8, the number of bytes of the character in a str: 1 below
\* U+0080 and 2 below U+0800
len_utf8(c) == IF code(c) < 128 THEN 1 ELSE 2

\* Ord for char: the order of the code points
char_le(x, y) == code(x) <= code(y)

\* White_Space (char::is_whitespace, the regex class \s) up to U+00FF:
\* U+0009..U+000D, U+0020, U+0085 and U+00A0
WhiteSpaceChars == {c \in Chars : code(c) \in (9..13) \cup {32, 133, 160}}
\* the regex class \w up to U+00FF: the decimal digits, the letters (those
\* of ASCII, U+00AA, U+00B5, U+00BA, U+00C0..U+00D6, U+00D8..U+00F6 and
\* U+00F8..U+00FF) and the connector U+005F
WordChars ==
    {c \in Chars : code(c) \in (48..57) \cup (65..90) \cup {95} \cup (97..122)
                                 \cup {170, 181, 186} \cup (192..214)
                                 \cup (216..246) \cup (248..255)}

\* ------------------------------------------------------------ DirectoryEntry
Folder(parent, children) == [kind |-> "Folder", parent |-> parent, children |-> children]
File(parent, size) == [kind |-> "File", parent |-> parent, size |-> size]
EmptyMap == [k \in {} |-> 0]

\* DirectoryNode::new: one cell, a Folder without parent and without children
new == <<Folder(None, EmptyMap)>>
\* the handle `root` of run: the cell DirectoryNode::new allocates
Root == 1

\* children.entry(name).or_insert(node): the cell is allocated only when the
\* name is vacant (the node built for an occupied name is dropped at once)
\* mutant: HashMap::insert, which replaces the node stored under a taken name
insert(h, n, name, entry) ==
    Append([h EXCEPT ![n].children = (name :> (Len(h) + 1)) @@ @], entry)

or_insert(h, n, name, entry) ==
    IF name \in DOMAIN h[n].children
    THEN h
    ELSE Append([h EXCEPT ![n].children = (name :> (Len(h) + 1)) @@ @], entry)

\* mutant: a taken name that designates a file gets the new size
add_subfile_last_write(h, n, name, size) ==
    IF h[n].kind = "Folder"
    THEN IF name \in DOMAIN h[n].children /\ h[h[n].children[name]].kind = "File"
         THEN [h EXCEPT ![h[n].children[name]].size = size]
         ELSE or_insert(h, n, name, File(Some(n), size))
    ELSE h

\* mutant: the new file is created without the reference to its parent
add_subfile_no_parent(h, n, name, size) ==
    IF h[n].kind = "Folder"
    THEN or_insert(h, n, name, File(None, size))
    ELSE h

add_subfile(h, n, name, size) ==
    IF h[n].kind = "Folder"
    THEN or_insert(h, n, name, File(Some(n), size))
    ELSE h

add_subfolder(h, n, name) ==
    IF h[n].kind = "Folder"
    THEN or_insert(h, n, name, Folder(Some(n), EmptyMap))
    ELSE h

\* Result values
Ok(v) == [ok |-> TRUE, val |-> v]
Err(e) == [ok |-> FALSE, err |-> e]

\* get_subfolder: the child stored under `name`, of whatever kind
get_subfolder(h, n, name) ==
    IF h[n].kind = "Folder"
    THEN IF name \in DOMAIN h[n].children
         THEN Ok(h[n].children[name])
         ELSE Err("DirectoryEntryNotExistError")
    ELSE Err("DirectoryEntryTypeError")

\* Weak::upgrade succeeds while the cell it designates has a strong owner
upgrade(lv, p) == IF p \in lv THEN Some(p) ELSE None

\* mutant: the Weak reference is never upgraded
get_parent_never(h, lv, n) == None

get_parent(h, lv, n) ==
    IF h[n].parent # None THEN upgrade(lv, h[n].parent[1]) ELSE None

\* mutant: `if let` in place of `while let`, a single step upwards
get_root_one_step(h, lv, n) ==
    IF get_parent(h, lv, n) # None THEN get_parent(h, lv, n)[1] ELSE n

RECURSIVE get_root(_, _, _)
get_root(h, lv, n) ==
    IF get_parent(h, lv, n) # None
    THEN get_root(h, lv, get_parent(h, lv, n)[1])
    ELSE n

\* ---------------------------------------------------------- u32 arithmetic
\* A u32 value v is written v when v < 2^31 and v - 2^32 otherwise (its
\* two's complement reading).  The arithmetic goes through the two halves
\* of 16 bits of a value.
hi16(x) == (x \div 65536) % 65536
lo16(x) == x % 65536
\* the u32 value of the halves h and l
u32_from(h, l) ==
    IF h >= 32768 THEN (h - 65536) * 65536 + l ELSE h * 65536 + l

\* x < y on u32 values
lt_u32(x, y) == IF (x < 0) = (y < 0) THEN x < y ELSE y < 0

\* x + y on u32 values: None for the panic "attempt to add with overflow"
\* of a build with overflow checks (debug), the wrapped sum in a build
\* without them (release).  Two values below 2^30 add without a carry.
add_u32(b, x, y) ==
    IF x >= 0 /\ x < 1073741824 /\ y >= 0 /\ y < 1073741824
    THEN Some(x + y)
    ELSE LET l == lo16(x) + lo16(y)
             h == hi16(x) + hi16(y) + (l \div 65536)
         IN  IF h >= 65536 /\ b = "debug"
             THEN None
             ELSE Some(u32_from(h % 65536, l % 65536))

\* x - y on u32 values: None for the panic "attempt to subtract with
\* overflow" of a build with overflow checks (debug), the wrapped difference
\* in a build without them (release)
sub_u32(b, x, y) ==
    LET l == lo16(x) - lo16(y)
        h == hi16(x) - hi16(y) + (l \div 65536)
    IN  IF lt_u32(x, y) /\ b = "debug"
        THEN None
        ELSE Some(u32_from(h % 65536, l % 65536))

\* u32::checked_add and u32::checked_mul by a radix: None on overflow
checked_add(x, y) == add_u32("debug", x, y)
checked_mul(x, radix) ==
    LET l == lo16(x) * radix
        h == hi16(x) * radix + (l \div 65536)
    IN  IF h >= 65536 THEN None ELSE Some(u32_from(h, l % 65536))

\* ---------------------------------------------------------- i32 arithmetic
\* An i32 value is written as it is.  x + y on i32 values: None for the
\* panic "attempt to add with overflow" of a build with overflow checks
\* (debug), the wrapped sum in a build without them (release).  Two values
\* from -2^30 to 2^30 - 1 add within the i32 range.
add_i32(b, x, y) ==
    IF /\ x >= -1073741824 /\ x < 1073741824
       /\ y >= -1073741824 /\ y < 1073741824
    THEN Some(x + y)
    ELSE LET l == lo16(x) + lo16(y)
             h == (x \div 65536) + (y \div 65536) + (l \div 65536)
         IN  IF (h < -32768 \/ h > 32767) /\ b = "debug"
             THEN None
             ELSE Some(u32_from(h % 65536, l % 65536))

\* x * y on i32 values, for a factor y from 0 to 2^15 - 1 (the marked
\* cycles are such factors): None for the panic "attempt to multiply with
\* overflow" of a debug build, the wrapped product in a release build
mul_i32(b, x, y) ==
    CASE y >= 0 /\ y < 32768 ->
        LET l == lo16(x) * y
            h == (x \div 65536) * y + (l \div 65536)
        IN  IF (h < -32768 \/ h > 32767) /\ b = "debug"
            THEN None
            ELSE Some(u32_from(h % 65536, l % 65536))

\* ------------------------------------------------------- aggregate queries
\* Every function below returns Some(value), or None when the call panics.
\* Each Folder keeps its children in a HashMap of its own, whose iteration
\* order is not defined: `ord` gives, for every Folder cell, the order in
\* which the iteration of its map yields the keys.
iter_mut(h, n, ord) == ord[n]

permutations(S) ==
    {p \in [1..Cardinality(S) -> S] :
        \A i, j \in 1..Cardinality(S) : i # j => p[i] # p[j]}
\* every way in which the HashMaps of the Folder cells F of h may yield
\* their keys: one order for each map
RECURSIVE orders_in(_, _)
orders_in(h, F) ==
    IF F = {} THEN {<<>>}
    ELSE LET n == CHOOSE m \in F : TRUE
         IN  {(n :> p) @@ o : p \in permutations(DOMAIN h[n].children),
                              o \in orders_in(h, F \ {n})}
orders_of(h) == orders_in(h, {n \in DOMAIN h : h[n].kind = "Folder"})

RECURSIVE get_all_directory_sizes(_, _, _, _)
RECURSIVE fold_sizes(_, _, _, _, _, _)
\* mutant: the fold keeps the size of the child visited last instead of
\* adding it to the accumulator
fold_sizes_no_acc(b, h, n, keys, ord, acc) ==
    IF keys = <<>>
    THEN Some(acc)
    ELSE LET r == get_all_directory_sizes(b, h, h[n].children[Head(keys)], ord)
         IN  IF r = None THEN None
             ELSE fold_sizes(b, h, n, Tail(keys), ord,
                             <<acc[1] \o r[1][1], r[1][2]>>)

\* the fold over the children yielded by the map: acc_vec is concatenated
\* with the list of the child and acc_size + folder_size is a u32 addition
fold_sizes(b, h, n, keys, ord, acc) ==
    IF keys = <<>>
    THEN Some(acc)
    ELSE LET r == get_all_directory_sizes(b, h, h[n].children[Head(keys)], ord)
         IN  IF r = None THEN None
             ELSE LET size == add_u32(b, acc[2], r[1][2])
                  IN  IF size = None THEN None
                      ELSE fold_sizes(b, h, n, Tail(keys), ord,
                                      <<acc[1] \o r[1][1], size[1]>>)

\* mutant: a File is an element of the list too
get_all_directory_sizes_with_files(b, h, n, ord) ==
    IF h[n].kind = "File"
    THEN Some(<<<<h[n].size>>, h[n].size>>)
    ELSE LET r == fold_sizes(b, h, n, iter_mut(h, n, ord), ord, <<<<>>, 0>>)
         IN  IF r = None THEN None
             ELSE Some(<<Append(r[1][1], r[1][2]), r[1][2]>>)

get_all_directory_sizes(b, h, n, ord) ==
    IF h[n].kind = "File"
    THEN Some(<<<<>>, h[n].size>>)
    ELSE LET r == fold_sizes(b, h, n, iter_mut(h, n, ord), ord, <<<<>>, 0>>)
         IN  IF r = None THEN None
             ELSE Some(<<Append(r[1][1], r[1][2]), r[1][2]>>)

calculate_size(b, h, n, ord) ==
    LET r == get_all_directory_sizes(b, h, n, ord)
    IN  IF r = None THEN None ELSE Some(r[1][2])

\* Iterator::sum::<u32>: the elements are added to 0 from the first to the
\* last, each addition a u32 addition of the build
RECURSIVE iter_sum(_, _)
iter_sum(b, s) ==
    IF s = <<>> THEN Some(0)
    ELSE LET front == iter_sum(b, SubSeq(s, 1, Len(s) - 1))
         IN  IF front = None THEN None
             ELSE add_u32(b, front[1], s[Len(s)])

\* mutant: the first element of the iterator (next() in the place of min())
iter_min_first(s) == IF s = <<>> THEN None ELSE Some(Head(s))

\* Iterator::min on u32 values: here None is the None of the Option
RECURSIVE iter_min(_)
iter_min(s) ==
    IF s = <<>> THEN None
    ELSE LET m == iter_min(Tail(s))
         IN  IF m = None \/ ~lt_u32(m[1], Head(s)) THEN Some(Head(s)) ELSE m

\* mutant: the filter keeps the sizes equal to the minimum
smallest_directory_size_at_least(b, h, n, minimum_size, ord) ==
    LET r == get_all_directory_sizes(b, h, n, ord)
    IN  IF r = None THEN None
        ELSE Some(iter_min(SelectSeq(r[1][1],
                                     LAMBDA x : ~lt_u32(x, minimum_size))))

\* Some(the Option returned), or None for a panic
smallest_directory_size_over_min(b, h, n, minimum_size, ord) ==
    LET r == get_all_directory_sizes(b, h, n, ord)
    IN  IF r = None THEN None
        ELSE Some(iter_min(SelectSeq(r[1][1],
                                     LAMBDA x : lt_u32(minimum_size, x))))

\* mutant: the filter keeps the sizes equal to the maximum
sum_directory_sizes_up_to_max(b, h, n, maximum_size, ord) ==
    LET r == get_all_directory_sizes(b, h, n, ord)
    IN  IF r = None THEN None
        ELSE iter_sum(b, SelectSeq(r[1][1],
                                   LAMBDA x : ~lt_u32(maximum_size, x)))

sum_directory_sizes_under_max(b, h, n, maximum_size, ord) ==
    LET r == get_all_directory_sizes(b, h, n, ord)
    IN  IF r = None THEN None
        ELSE iter_sum(b, SelectSeq(r[1][1],
                                   LAMBDA x : lt_u32(x, maximum_size)))

\* ----------------------------------------------------------------- strings
\* char::is_whitespace (str::trim) and the regex class \s
is_whitespace(c) == CASE c \in Chars -> c \in WhiteSpaceChars
\* the regex class \d: the decimal digits, up to U+00FF those of ASCII
is_digit(c) == CASE c \in Chars -> \E i \in 1..10 : DigitChars[i] = c
\* the regex class \w
is_word(c) == CASE c \in Chars -> c \in WordChars
\* the regex class [\w\.]
is_name_char(c) == is_word(c) \/ c = "."

RECURSIVE trim_start(_)
trim_start(s) ==
    IF s # <<>> /\ is_whitespace(Head(s)) THEN trim_start(Tail(s)) ELSE s

RECURSIVE trim_end(_)
trim_end(s) ==
    IF s # <<>> /\ is_whitespace(s[Len(s)])
    THEN trim_end(SubSeq(s, 1, Len(s) - 1))
    ELSE s

trim(s) == trim_end(trim_start(s))

\* ^dir\s([\w\.]+)$ : the captured name, or None
REGEX_DIRECTORYENTRY_FOLDER(line) ==
    IF /\ Len(line) >= 5
       /\ SubSeq(line, 1, 3) = <<"d", "i", "r">>
       /\ is_whitespace(line[4])
       /\ \A i \in 5..Len(line) : is_name_char(line[i])
    THEN Some(<<SubSeq(line, 5, Len(line))>>)
    ELSE None

\* ^(\d+)\s([\w\.]+)$ : the captured size and name, or None
REGEX_DIRECTORYENTRY_FILE(line) ==
    LET cuts == {p \in 2..(Len(line) - 1) :
                    /\ is_whitespace(line[p])
                    /\ \A i \in 1..(p - 1) : is_digit(line[i])
                    /\ \A i \in (p + 1)..Len(line) : is_name_char(line[i])}
    IN  IF cuts # {}
        THEN LET p == CHOOSE q \in cuts : TRUE
             IN  Some(<<SubSeq(line, 1, p - 1), SubSeq(line, p + 1, Len(line))>>)
        ELSE None

digit_value(c) == CHOOSE i \in 0..9 : DigitChars[i + 1] = c

\* the loop of u32::from_str_radix over the digits: the value so far is
\* multiplied by 10 and the digit added, None as soon as one of the two
\* overflows
RECURSIVE digits_value(_)
digits_value(ds) ==
    IF ds = <<>> THEN Some(0)
    ELSE LET front == digits_value(SubSeq(ds, 1, Len(ds) - 1))
         IN  IF front = None THEN None
             ELSE IF checked_mul(front[1], 10) = None THEN None
             ELSE checked_add(checked_mul(front[1], 10)[1],
                              digit_value(ds[Len(ds)]))

\* str::parse::<u32>: Some(value), or None for the Err (an empty string, a
\* sign alone, a character that is no ASCII digit, a number that does not
\* fit in 32 bits)
parse_u32(s) ==
    LET ds == IF Len(s) > 1 /\ Head(s) = "+" THEN Tail(s) ELSE s
    IN  IF ds # <<>> /\ \A k \in DOMAIN ds : is_digit(ds[k])
        THEN digits_value(ds)
        ELSE None

\* parse_line_to_directoryentry: err is None for Ok(()), Some("Syntax") for
\* the regex::Error::Syntax return and Some("panic") when unwrap() panics
parse_line_to_directoryentry(h, n, raw) ==
    LET line == trim(raw)
        dir  == REGEX_DIRECTORYENTRY_FOLDER(line)
        file == REGEX_DIRECTORYENTRY_FILE(line)
    IN  IF dir # None
        THEN [err |-> None, heap |-> add_subfolder(h, n, dir[1][1])]
        ELSE IF file # None
        THEN IF parse_u32(file[1][1]) # None
             THEN [err |-> None,
                   heap |-> add_subfile(h, n, file[1][2], parse_u32(file[1][1])[1])]
             ELSE [err |-> Some("panic"), heap |-> h]
        ELSE [err |-> Some("Syntax"), heap |-> h]

\* ------------------------------------------------------------ ParsedCommand
CdIntoFolder(name) == [type |-> "CdIntoFolder", name |-> name]
CdOutOfFolder == [type |-> "CdOutOfFolder"]
CdToRoot == [type |-> "CdToRoot"]
Ls(files) == [type |-> "Ls", files |-> files]

\* the loop of the Ls arm: entries are added until one fails
RECURSIVE ls_entries(_, _, _)
ls_entries(h, n, files) ==
    IF files = <<>>
    THEN [err |-> None, heap |-> h]
    ELSE LET r == parse_line_to_directoryentry(h, n, trim(Head(files)))
         IN  IF r.err # None THEN r ELSE ls_entries(r.heap, n, Tail(files))

\* DirectoryNode::command, one operator per arm of the match: the node
\* returned (or the error) and the tree

\* mutant: the lookup goes through entry(..).or_insert, so that a name not
\* found is created as an empty Folder and entered
command_CdIntoFolder_or_insert(h, n, folder_name) ==
    LET g == add_subfolder(h, n, folder_name)
        r == get_subfolder(g, n, folder_name)
    IN  IF r.ok THEN [ok |-> TRUE, val |-> r.val, heap |-> g]
        ELSE [ok |-> FALSE, err |-> r.err, heap |-> g]

command_CdIntoFolder(h, n, folder_name) ==
    LET r == get_subfolder(h, n, folder_name)
    IN  IF r.ok THEN [ok |-> TRUE, val |-> r.val, heap |-> h]
        ELSE [ok |-> FALSE, err |-> r.err, heap |-> h]

\* mutant: the arm returns the node it was given
command_CdOutOfFolder_stay(h, lv, n) ==
    [ok |-> TRUE, val |-> n, heap |-> h]

\* mutant: the arm fails when there is no parent
command_CdOutOfFolder_strict(h, lv, n) ==
    IF get_parent(h, lv, n) # None
    THEN [ok |-> TRUE, val |-> get_parent(h, lv, n)[1], heap |-> h]
    ELSE [ok |-> FALSE, err |-> "DirectoryEntryNotExistError", heap |-> h]

command_CdOutOfFolder(h, lv, n) ==
    [ok |-> TRUE,
     val |-> IF get_parent(h, lv, n) # None THEN get_parent(h, lv, n)[1] ELSE n,
     heap |-> h]

command_CdToRoot(h, lv, n) ==
    [ok |-> TRUE, val |-> get_root(h, lv, n), heap |-> h]

command_Ls(h, n, files) ==
    LET r == ls_entries(h, n, files)
    IN  IF r.err = None THEN [ok |-> TRUE, val |-> n, heap |-> r.heap]
        ELSE [ok |-> FALSE, err |-> r.err[1], heap |-> r.heap]

command(h, lv, n, cmd) ==
    CASE cmd.type = "CdIntoFolder" -> command_CdIntoFolder(h, n, cmd.name)
      [] cmd.type = "CdOutOfFolder" -> command_CdOutOfFolder(h, lv, n)
      [] cmd.type = "CdToRoot" -> command_CdToRoot(h, lv, n)
      [] cmd.type = "Ls" -> command_Ls(h, n, cmd.files)

\* ------------------------------------------------- ParsedCommand::from_line
\* ^cd /  (no end anchor: a match of the beginning of the line)
REGEX_COMMAND_CDROOT(l) ==
    Len(l) >= 4 /\ SubSeq(l, 1, 4) = <<"c", "d", " ", "/">>

\* ^cd \.\.
REGEX_COMMAND_CDPARENT(l) ==
    Len(l) >= 5 /\ SubSeq(l, 1, 5) = <<"c", "d", " ", ".", ".">>

\* ^cd\s(\w+)
REGEX_COMMAND_CDINTO(l) ==
    /\ Len(l) >= 4
    /\ SubSeq(l, 1, 2) = <<"c", "d">>
    /\ is_whitespace(l[3])
    /\ is_word(l[4])

\* ^ls.*
REGEX_COMMAND_LS(l) == Len(l) >= 2 /\ SubSeq(l, 1, 2) = <<"l", "s">>

\* str::split: the pieces between the occurrences of sep
RECURSIVE split(_, _)
split(s, sep) ==
    IF \E i \in 1..Len(s) : s[i] = sep
    THEN LET i == CHOOSE j \in 1..Len(s) :
                      s[j] = sep /\ \A k \in 1..(j - 1) : s[k] # sep
         IN  <<SubSeq(s, 1, i - 1)>> \o split(SubSeq(s, i + 1, Len(s)), sep)
    ELSE <<s>>

\* s[k..] : the str past its first k bytes; the slice panics (None) when s
\* has fewer than k bytes and when byte k is not the first of a character
RECURSIVE str_from(_, _)
str_from(s, k) ==
    IF k = 0 THEN Some(s)
    ELSE IF s = <<>> \/ len_utf8(Head(s)) > k THEN None
    ELSE str_from(Tail(s), k - len_utf8(Head(s)))

\* l[3..]
slice_from_3(l) == str_from(l, 3)

\* from_line: Ok(command), the regex::Error::Syntax carrying the trimmed line,
\* or the panic of the slice
from_line(raw) ==
    LET l == trim(raw)
    IN  IF REGEX_COMMAND_CDROOT(l) THEN Ok(CdToRoot)
        ELSE IF REGEX_COMMAND_CDPARENT(l) THEN Ok(CdOutOfFolder)
        ELSE IF REGEX_COMMAND_CDINTO(l)
        THEN IF slice_from_3(l) = None
             THEN [ok |-> FALSE, err |-> "panic", text |-> l]
             ELSE Ok(CdIntoFolder(trim(slice_from_3(l)[1])))
        ELSE IF REGEX_COMMAND_LS(l)
        THEN IF slice_from_3(l) = None
             THEN [ok |-> FALSE, err |-> "panic", text |-> l]
             ELSE LET pieces == split(trim(slice_from_3(l)[1]), "\n")
                  IN  Ok(Ls([i \in 1..Len(pieces) |-> trim(pieces[i])]))
        ELSE [ok |-> FALSE, err |-> "Syntax", text |-> l]

\* ------------------------------------------------------------------ inputs
\* Child names and file sizes handed to the operations
Names == {<<"a">>, <<"b">>}
Sizes == {0, 1, MaxSize}

\* the thresholds handed to the two threshold queries
QueryArgs == {0, MaxSize}

\* Listings replayed by the Ls command: the entry lines of the tests
\* (a file, a directory), a name listed twice, and a line of neither form
\* between two well-formed ones
LsInputs ==
    { <<>>,
      <<<<"d", "i", "r", " ", "a">>>>,
      <<<<"2", " ", "b">>, <<"d", "i", "r", " ", "a">>>>,
      <<<<"1", " ", "a">>, <<"d", "i", "r", " ", "a">>, <<"2", " ", "a">>>>,
      <<<<"1", " ", "b">>, <<"?">>, <<"d", "i", "r", " ", "a">>>> }

\* ------------------------------------------------------------- inputs of run
\* The text of input/day7input.txt: either one command `$ <head><tail>`,
\* the tail being any string of at most MaxTail of the characters TailChars,
MaxTail == 2
TailChars == {".", " ", "a", "\n", "/"}
RECURSIVE Tails(_)
Tails(k) ==
    IF k = 0 THEN {<<>>}
    ELSE Tails(k - 1) \cup
         {t \o <<c>> : t \in {u \in Tails(k - 1) : Len(u) = k - 1},
                       c \in TailChars}
Heads ==
    { <<"c", "d", " ", "/">>,
      <<"c", "d", " ", ".", ".">>,
      <<"c", "d", " ", "a">>,
      <<"c", "d", " ">>,
      <<"l", "s">>,
      <<>> }
OneCommandInputs ==
    {<<"$", " ">> \o h \o t : h \in Heads, t \in Tails(MaxTail)}

\* or one of these sessions of several commands
Scripts ==
    { \* a replay that succeeds on a small tree
      <<"$", " ", "c", "d", " ", "/", "\n", "$", " ", "l", "s", "\n", "d",
        "i", "r", " ", "a", "\n", "1", " ", "b", "\n", "$", " ", "c", "d",
        " ", "a", "\n", "$", " ", "l", "s", "\n", "2", " ", "b", "\n", "$",
        " ", "c", "d", " ", ".", ".", "\n", "$", " ", "c", "d", " ", ".",
        ".">>,
      \* a name that is not there
      <<"$", " ", "l", "s", "\n", "1", " ", "a", "\n", "$", " ", "c", "d",
        " ", "b", "\n", "$", " ", "l", "s", "\n", "2", " ", "b">>,
      \* a file is entered, then a lookup on it
      <<"$", " ", "l", "s", "\n", "1", " ", "a", "\n", "$", " ", "c", "d",
        " ", "a", "\n", "$", " ", "c", "d", " ", "a", "\n", "$", " ", "l",
        "s", "\n", "d", "i", "r", " ", "b">>,
      \* an entry line of neither form
      <<"$", " ", "l", "s", "\n", "1", " ", "a", "\n", "?", "\n", "2", " ",
        "b", "\n", "$", " ", "l", "s", "\n", "d", "i", "r", " ", "b">>,
      \* an unknown command before a bare ls
      <<"$", " ", "l", "s", "\n", "1", " ", "a", "\n", "$", " ", "f", "o",
        "o", "\n", "$", " ", "l", "s">>,
      \* an unknown command between two listings
      <<"$", " ", "l", "s", "\n", "1", " ", "a", "\n", "$", " ", "f", "o",
        "o", "\n", "$", " ", "l", "s", "\n", "d", "i", "r", " ", "b">>,
      \* a size of 2^32
      <<"$", " ", "l", "s", "\n", "4", "2", "9", "4", "9", "6", "7", "2",
        "9", "6", " ", "a", "\n", "$", " ", "l", "s", "\n", "1", " ", "b">>,
      \* a total above TOTAL_SPACE
      <<"$", " ", "l", "s", "\n", "7", "0", "0", "0", "0", "0", "0", "1",
        " ", "a">>,
      \* a total between the two constants
      <<"$", " ", "l", "s", "\n", "4", "0", "0", "0", "0", "0", "0", "1",
        " ", "a", "\n", "d", "i", "r", " ", "b">>,
      \* a directory whose size is exactly the missing space
      <<"$", " ", "l", "s", "\n", "d", "i", "r", " ", "a", "\n", "4", "0",
        "0", "0", "0", "0", "0", "0", " ", "b", "\n", "$", " ", "c", "d",
        " ", "a", "\n", "$", " ", "l", "s", "\n", "2", "0", "0", "0", "0",
        "0", "0", "0", " ", "a">>,
      \* a directory is listed, then entered: its name holds a dot
      <<"$", " ", "l", "s", "\n", "d", "i", "r", " ", "a", ".", "a", "\n",
        "$", " ", "c", "d", " ", "a", ".", "a">>,
      \* a directory is listed, then entered: its name starts with a dot
      <<"$", " ", "l", "s", "\n", "d", "i", "r", " ", ".", "a", "\n", "$",
        " ", "c", "d", " ", ".", "a">>,
      \* a total of 2^32: the u32 addition of the fold overflows
      <<"$", " ", "l", "s", "\n", "4", "2", "9", "4", "9", "6", "7", "2",
        "9", "5", " ", "a", "\n", "1", " ", "b">>,
      \* a name of a capital and a letter of two bytes, listed then entered
      <<"$", " ", "l", "s", "\n", "d", "i", "r", " ", "A", "é", "\n", "$",
        " ", "c", "d", " ", "A", "é">>,
      \* cd followed by a no-break space: byte 3 is inside that character
      <<"$", " ", "c", "d", " ", "a">>,
      \* ls followed by a letter of two bytes, and by a form feed
      <<"$", " ", "l", "s", "é">>,
      <<"$", " ", "l", "s", "\f", "1", " ", "a">> }

RunInputs == OneCommandInputs \cup Scripts

\* ---------------------------------------------------------------- ownership
\* The strong (Rc) references between cells: a Folder owns the DirectoryNode
\* values of its child map.  The parent reference is a Weak and owns nothing.
\* mutant: the parent reference is an Rc too, child and parent own each other
strong_edges_with_parent(h) ==
    UNION {{<<n, h[n].children[k]>> : k \in DOMAIN h[n].children} :
              n \in {m \in DOMAIN h : h[m].kind = "Folder"}}
    \cup {<<n, h[n].parent[1]>> : n \in {m \in DOMAIN h : h[m].parent # None}}

strong_edges(h) ==
    UNION {{<<n, h[n].children[k]>> : k \in DOMAIN h[n].children} :
              n \in {m \in DOMAIN h : h[m].kind = "Folder"}}

\* the cells kept alive by the handles S: a cell is dropped when its last
\* strong reference goes, and its child map is dropped with it
RECURSIVE owned(_, _)
owned(h, S) ==
    LET T == S \cup {e[2] : e \in {x \in strong_edges(h) : x[1] \in S}}
    IN  IF T = S THEN S ELSE owned(h, T)

\* the handles a caller holds: current_node and, until it is released, root
handles(c, rh) == {c} \cup (IF rh THEN {Root} ELSE {})

\* ------------------------------------------------------------ state machine
\* heap:      the cells allocated so far (DirectoryEntry values)
\* live:      the cells that still have a strong owner
\* cursor:    the handle the caller holds (current_node in run)
\* last:      the operation applied last: its name and argument, the node it
\*            was applied at, its outcome and the number of cells it allocated
\* root_held: the caller still holds the handle DirectoryNode::new returned
\* no CPU and no rope exist while day 7 runs
InitNoCpu ==
    /\ cpu = None
    /\ cpu_script = <<>>
    /\ cpu_ran = 0
    /\ cpu_pc = "none"

InitNoRope ==
    /\ rope = None
    /\ rope_script = <<>>

InitNoCargo ==
    /\ cargo = None
    /\ cargo_last = None

InitNoMarker ==
    /\ stream = <<>>
    /\ marker_length = 0
    /\ start_marker = [returned |-> FALSE]

\* main is not entered: a caller inside the crate (the tests)
InitNoMain ==
    /\ argv = <<>>
    /\ main_pc = "idle"
    /\ specific_challenge = None
    /\ ran = <<>>
    /\ exit_code = None

InitOthers ==
    /\ InitNoCpu
    /\ InitNoRope
    /\ InitNoCargo
    /\ InitNoMarker
    /\ InitNoMain

InitTree ==
    /\ heap = new
    /\ live = {Root}
    /\ cursor = Root
    /\ last = [op |-> "new", arg |-> <<>>, at |-> Root, res |-> "Ok", added |-> 0]
    /\ root_held = TRUE

\* a caller of the DirectoryNode operations (the tests): run is not entered
Init ==
    /\ InitTree
    /\ input = <<>>
    /\ part_2 = FALSE
    /\ build = "debug"
    /\ commands = <<>>
    /\ pc = "caller"
    /\ out = <<>>
    /\ InitOthers

AddSubfile(name, size) ==
    /\ Len(add_subfile(heap, cursor, name, size)) <= MaxNodes
    /\ heap' = add_subfile(heap, cursor, name, size)
    /\ live' = owned(heap', handles(cursor, root_held))
    /\ last' = [op |-> "add_subfile", arg |-> <<name, size>>, at |-> cursor,
                res |-> "Ok",
                added |-> Len(heap') - Len(heap)]
    /\ UNCHANGED <<cursor, root_held, runvars, othervars>>

AddSubfolder(name) ==
    /\ Len(add_subfolder(heap, cursor, name)) <= MaxNodes
    /\ heap' = add_subfolder(heap, cursor, name)
    /\ live' = owned(heap', handles(cursor, root_held))
    /\ last' = [op |-> "add_subfolder", arg |-> <<name>>, at |-> cursor,
                res |-> "Ok",
                added |-> Len(heap') - Len(heap)]
    /\ UNCHANGED <<cursor, root_held, runvars, othervars>>

\* current_node = current_node.command(command)?  (a caller that goes on
\* after an Err keeps its handle)
Command(cmd) ==
    LET r == command(heap, live, cursor, cmd)
    IN  /\ Len(r.heap) <= MaxNodes
        /\ heap' = r.heap
        /\ cursor' = IF r.ok THEN r.val ELSE cursor
        /\ live' = owned(heap', handles(cursor', root_held))
        /\ last' = [op |-> cmd.type, arg |-> cmd, at |-> cursor,
                    res |-> IF r.ok THEN "Ok" ELSE r.err,
                    added |-> Len(r.heap) - Len(heap)]
        /\ UNCHANGED <<root_held, runvars, othervars>>

Next ==
    \/ \E name \in Names, size \in Sizes : AddSubfile(name, size)
    \/ \E name \in Names : AddSubfolder(name)
    \/ \E name \in Names : Command(CdIntoFolder(name))
    \/ Command(CdOutOfFolder)
    \/ Command(CdToRoot)
    \/ \E files \in LsInputs : Command(Ls(files))

Spec == Init /\ [][Next]_vars

\* A replay: the cursor starts at the root and only commands are applied
NextReplay ==
    \/ \E name \in Names : Command(CdIntoFolder(name))
    \/ Command(CdOutOfFolder)
    \/ Command(CdToRoot)
    \/ \E files \in LsInputs : Command(Ls(files))

SpecReplay == Init /\ [][NextReplay]_vars

\* The caller lets go of the handle DirectoryNode::new returned and keeps
\* current_node: the root cell is dropped unless current_node is the root,
\* and every cell it alone owned is dropped with it.
DropRoot ==
    /\ root_held
    /\ root_held' = FALSE
    /\ live' = owned(heap, handles(cursor, FALSE))
    /\ last' = [op |-> "drop", arg |-> <<>>, at |-> cursor, res |-> "Ok",
                added |-> 0]
    /\ UNCHANGED <<heap, cursor, runvars, othervars>>

NextDrop ==
    \/ \E name \in Names, size \in Sizes : AddSubfile(name, size)
    \/ \E name \in Names : AddSubfolder(name)
    \/ \E name \in Names : Command(CdIntoFolder(name))
    \/ Command(CdOutOfFolder)
    \/ Command(CdToRoot)
    \/ \E files \in LsInputs : Command(Ls(files))
    \/ DropRoot

SpecDrop == Init /\ [][NextDrop]_vars

\* The aggregate queries as calls made on the handle the caller holds.  Each
\* takes borrow_mut() of the cells it visits and iterates the child maps
\* with iter_mut(), and assigns to none of them: the call returns res and
\* leaves the tree and the handles as they are.  res is Some(the value
\* returned), or None when an addition panics.
\* mutant: the child map is emptied while it is iterated (drain() in the
\* place of iter_mut())
Query_drain(op, arg, res) ==
    /\ heap' = IF heap[cursor].kind = "Folder"
               THEN [heap EXCEPT ![cursor].children = EmptyMap]
               ELSE heap
    /\ live' = owned(heap', handles(cursor, root_held))
    /\ last' = [op |-> op, arg |-> arg, at |-> cursor, res |-> res, added |-> 0]
    /\ UNCHANGED <<cursor, root_held, runvars, othervars>>

Query(op, arg, res) ==
    /\ last' = [op |-> op, arg |-> arg, at |-> cursor, res |-> res, added |-> 0]
    /\ UNCHANGED <<heap, live, cursor, root_held, runvars, othervars>>

CalculateSize ==
    \E ord \in orders_of(heap) :
        Query("calculate_size", <<>>, calculate_size(build, heap, cursor, ord))

GetAllDirectorySizes ==
    \E ord \in orders_of(heap) :
        Query("get_all_directory_sizes", <<>>,
              get_all_directory_sizes(build, heap, cursor, ord))

SumDirectorySizesUnderMax(maximum_size) ==
    \E ord \in orders_of(heap) :
        Query("sum_directory_sizes_under_max", maximum_size,
              sum_directory_sizes_under_max(build, heap, cursor, maximum_size,
                                            ord))

SmallestDirectorySizeOverMin(minimum_size) ==
    \E ord \in orders_of(heap) :
        Query("smallest_directory_size_over_min", minimum_size,
              smallest_directory_size_over_min(build, heap, cursor,
                                               minimum_size, ord))

\* the populating operations, the moves down and up and the queries, in any
\* order
NextQuery ==
    \/ \E name \in Names, size \in Sizes : AddSubfile(name, size)
    \/ \E name \in Names : AddSubfolder(name)
    \/ \E name \in Names : Command(CdIntoFolder(name))
    \/ Command(CdOutOfFolder)
    \/ CalculateSize
    \/ GetAllDirectorySizes
    \/ \E maximum_size \in QueryArgs : SumDirectorySizesUnderMax(maximum_size)
    \/ \E minimum_size \in QueryArgs : SmallestDirectorySizeOverMin(minimum_size)

SpecQuery == Init /\ [][NextQuery]_vars

\* A tree of two directories a and b under the root, each holding one file
\* of a size in Sizes, built with add_subfolder and add_subfile as the tests
\* build theirs; `first` is the directory inserted first.
two_directories(first, x, y) ==
    LET second == IF first = <<"a">> THEN <<"b">> ELSE <<"a">>
        h1 == add_subfolder(add_subfolder(new, Root, first), Root, second)
        h2 == add_subfile(h1, get_subfolder(h1, Root, <<"a">>).val, <<"a">>, x)
    IN  add_subfile(h2, get_subfolder(h2, Root, <<"b">>).val, <<"a">>, y)

\* the queries are made on such a tree, from the root or from a directory
InitOrder ==
    /\ \E first \in Names, x \in Sizes, y \in Sizes :
          heap = two_directories(first, x, y)
    /\ live = DOMAIN heap
    /\ cursor \in {n \in DOMAIN heap : heap[n].kind = "Folder"}
    /\ last = [op |-> "new", arg |-> <<>>, at |-> Root, res |-> "Ok", added |-> 0]
    /\ root_held = TRUE
    /\ input = <<>>
    /\ part_2 = FALSE
    /\ build = "debug"
    /\ commands = <<>>
    /\ pc = "caller"
    /\ out = <<>>
    /\ InitOthers

NextOrder ==
    \/ CalculateSize
    \/ GetAllDirectorySizes
    \/ \E maximum_size \in QueryArgs : SumDirectorySizesUnderMax(maximum_size)
    \/ \E minimum_size \in QueryArgs : SmallestDirectorySizeOverMin(minimum_size)

SpecOrder == InitOrder /\ [][NextOrder]_vars

\* the callers of Spec, on a tree they build from the root alone or on a
\* tree of two directories
InitSmallest ==
    \/ Init
    \/ InitOrder
SpecSmallest == InitSmallest /\ [][Next]_vars

\* --------------------------------------------------------------------- run
TOTAL_SPACE == 70000000
SPACE_REQUIRED_FOR_UPDATE == 30000000

\* part 2: the two subtractions
min_deletion_size(b, total) ==
    LET free_space == sub_u32(b, TOTAL_SPACE, total)
    IN  [free_space |-> free_space,
         min_deletion_size |->
             IF free_space = None THEN None
             ELSE sub_u32(b, SPACE_REQUIRED_FOR_UPDATE, free_space[1])]

\* a run of part 2 after the replay: size_val, or the panic of an
\* addition, of a subtraction or of unwrap on None
part_2_size_val(h, b, ord) ==
    LET total == calculate_size(b, h, Root, ord)
    IN  IF total = None THEN [panic |-> "add", found |-> None]
        ELSE LET m == min_deletion_size(b, total[1])
             IN  IF m.min_deletion_size = None
                 THEN [panic |-> "subtract", found |-> None]
                 ELSE LET f == smallest_directory_size_over_min(
                                   b, h, Root, m.min_deletion_size[1], ord)
                      IN  IF f = None THEN [panic |-> "add", found |-> None]
                          ELSE IF f[1] = None
                          THEN [panic |-> "unwrap", found |-> None]
                          ELSE [panic |-> "no", found |-> f[1]]

\* the run starts on an input file, as part 1 or 2, in one of the builds
InitRun ==
    /\ InitTree
    /\ input \in RunInputs
    /\ part_2 \in BOOLEAN
    /\ build \in {"debug", "release"}
    /\ commands = <<>>
    /\ pc = "read"
    /\ out = <<>>
    /\ InitOthers

\* File::open or read_to_string fails: run returns the Err
RunReadFails ==
    /\ pc = "read"
    /\ pc' = "err"
    /\ last' = [op |-> "read", arg |-> <<>>, at |-> cursor, res |-> "io",
                added |-> 0]
    /\ UNCHANGED <<heap, live, cursor, root_held,
                   input, part_2, build, commands, out, othervars>>

\* the commands are split along '$' and all of them parsed (collect) before
\* the first is applied; a panic of from_line ends the process here
RunParse ==
    LET pieces == SelectSeq(split(trim(input), "$"), LAMBDA l : Len(l) > 0)
        parsed == [i \in 1..Len(pieces) |-> from_line(pieces[i])]
        panics == \E i \in 1..Len(parsed) :
                     ~parsed[i].ok /\ parsed[i].err = "panic"
    IN  /\ pc = "read"
        /\ pc' = IF panics THEN "panic" ELSE "replay"
        /\ commands' = IF panics THEN <<>> ELSE parsed
        /\ last' = [op |-> "parse", arg |-> parsed, at |-> cursor,
                    res |-> IF panics THEN "panic" ELSE "Ok", added |-> 0]
        /\ UNCHANGED <<heap, live, cursor, root_held,
                       input, part_2, build, out, othervars>>

\* one turn of the loop: `command?`, then current_node.command(command)?
RunStep ==
    /\ pc = "replay"
    /\ commands # <<>>
    /\ commands' = Tail(commands)
    /\ IF ~Head(commands).ok
       THEN /\ pc' = "err"
            /\ last' = [op |-> "from_line", arg |-> Head(commands),
                        at |-> cursor, res |-> Head(commands).err, added |-> 0]
            /\ UNCHANGED <<heap, live, cursor>>
       ELSE LET r == command(heap, live, cursor, Head(commands).val)
            IN  /\ heap' = r.heap
                /\ cursor' = IF r.ok THEN r.val ELSE cursor
                /\ live' = owned(heap', handles(cursor', root_held))
                /\ pc' = IF r.ok THEN "replay"
                         ELSE IF r.err = "panic" THEN "panic" ELSE "err"
                /\ last' = [op |-> Head(commands).val.type,
                            arg |-> Head(commands).val, at |-> cursor,
                            res |-> IF r.ok THEN "Ok" ELSE r.err,
                            added |-> Len(r.heap) - Len(heap)]
    /\ UNCHANGED <<root_held, input, part_2, build, out, othervars>>

\* after the loop: the query of the part, and the line printed
RunQuery ==
    /\ pc = "replay"
    /\ commands = <<>>
    /\ \E ord \in orders_of(heap) :
          IF part_2
          THEN LET r == part_2_size_val(heap, build, ord)
               IN  /\ pc' = IF r.panic = "no" THEN "done" ELSE "panic"
                   /\ out' = IF r.panic = "no"
                             THEN <<[part |-> 2, size_val |-> r.found[1]]>>
                             ELSE out
                   /\ last' = [op |-> "part_2", arg |-> <<>>, at |-> cursor,
                               res |-> r.panic, added |-> 0]
          ELSE LET r == sum_directory_sizes_under_max(build, heap, Root,
                                                       100000, ord)
               IN  /\ pc' = IF r # None THEN "done" ELSE "panic"
                   /\ out' = IF r # None
                             THEN <<[part |-> 1, size_val |-> r[1]]>>
                             ELSE out
                   /\ last' = [op |-> "part_1", arg |-> <<>>, at |-> cursor,
                               res |-> IF r # None THEN "Ok" ELSE "add",
                               added |-> 0]
    /\ UNCHANGED <<heap, live, cursor, root_held,
                   input, part_2, build, commands, othervars>>

NextRun ==
    \/ RunReadFails
    \/ RunParse
    \/ RunStep
    \/ RunQuery

SpecRun == InitRun /\ [][NextRun]_vars

\* ------------------------------------------------------------------ day 10
SIGNAL_STRENGTH_CYCLE_INTERVALS == <<20, 60, 100, 140, 180, 220>>
IMG_WIDTH == 40
IMG_HEIGHT == 6

Addx(i) == [type |-> "Addx", i |-> i]
Noop == [type |-> "Noop"]

\* CPU::new: x starts at 1, no cycle has run, every pixel is dark
CPU_new ==
    [x |-> 1, cycles |-> 0, signal_strength_acc |-> 0,
     pixel_array |-> [k \in 0..(IMG_WIDTH * IMG_HEIGHT - 1) |-> FALSE]]

\* `v as usize > IMG_HEIGHT * IMG_WIDTH` for an i32 v: the cast of a negative
\* v is at least 2^31 on every target, the cast of another v is v
as_usize_exceeds_image(v) == v < 0 \/ v > IMG_HEIGHT * IMG_WIDTH

\* draw_pixel_for_current_cycle: Some(the CPU after the call), or None when
\* the call panics.  Past the first two returns x is not negative, so
\* x_register is x itself.  cycles - 1 is a usize subtraction: at cycles = 0
\* it panics in a build with overflow checks (debug) and leaves usize::MAX,
\* 2^64 - 1, in a build without (release), of which the column is 15 and
\* the pixel index, 2^64 - 1 again, is outside of pixel_array.
draw_pixel_for_current_cycle(b, c) ==
    IF c.cycles > IMG_HEIGHT * IMG_WIDTH THEN Some(c)
    ELSE IF c.x < 1 /\ as_usize_exceeds_image(c.x) THEN Some(c)
    ELSE IF c.cycles = 0 /\ b = "debug" THEN None
    ELSE LET x_register == c.x
             image_x_pos == IF c.cycles = 0 THEN 15
                            ELSE (c.cycles - 1) % IMG_WIDTH
             image_y_pos == (c.cycles - 1) \div IMG_WIDTH
         IN  IF /\ x_register >= 1
                /\ image_x_pos >= x_register - 1
                /\ image_x_pos <= x_register + 1
             THEN IF c.cycles = 0 THEN None
                  ELSE Some([c EXCEPT
                               !.pixel_array[image_x_pos + IMG_WIDTH * image_y_pos]
                                   = TRUE])
             ELSE Some(c)

\* tick_cycle, tick_cycles and run_command return Ok(the CPU after the
\* call) or, when the call panics, the Err "panic" with, as val, the CPU as
\* the panic leaves it.
\* tick_cycle: the cycle is counted, its pixel drawn, and on a marked cycle
\* the signal strength is accumulated: self.x * self.cycles as i32 and the
\* += are i32 operations.
tick_cycle(b, c) ==
    LET counted == [c EXCEPT !.cycles = @ + 1]
        drawn == draw_pixel_for_current_cycle(b, counted)
    IN  IF drawn = None
        THEN [ok |-> FALSE, err |-> "panic", val |-> counted]
        ELSE IF \E k \in DOMAIN SIGNAL_STRENGTH_CYCLE_INTERVALS :
                   SIGNAL_STRENGTH_CYCLE_INTERVALS[k] = drawn[1].cycles
        THEN LET product == mul_i32(b, drawn[1].x, drawn[1].cycles)
                 acc == add_i32(b, drawn[1].signal_strength_acc, product[1])
             IN  IF product = None \/ acc = None
                 THEN [ok |-> FALSE, err |-> "panic", val |-> drawn[1]]
                 ELSE Ok([drawn[1] EXCEPT !.signal_strength_acc = acc[1]])
        ELSE Ok(drawn[1])

RECURSIVE tick_cycles(_, _, _)
tick_cycles(b, c, amount) ==
    IF amount <= 0 THEN Ok(c)
    ELSE LET r == tick_cycle(b, c)
         IN  IF r.ok THEN tick_cycles(b, r.val, amount - 1) ELSE r

\* run_command: an Addx ticks twice and then adds (self.x += i on i32), a
\* Noop ticks once
\* mutant: the Addx adds before it ticks
run_command_adds_first(b, c, cmd) ==
    IF cmd.type = "Addx"
    THEN LET x == add_i32(b, c.x, cmd.i)
         IN  IF x = None THEN [ok |-> FALSE, err |-> "panic", val |-> c]
             ELSE tick_cycles(b, [c EXCEPT !.x = x[1]], 2)
    ELSE tick_cycle(b, c)
run_command(b, c, cmd) ==
    IF cmd.type = "Addx"
    THEN LET r == tick_cycles(b, c, 2)
             x == add_i32(b, r.val.x, cmd.i)
         IN  IF ~r.ok THEN r
             ELSE IF x = None
             THEN [ok |-> FALSE, err |-> "panic", val |-> r.val]
             ELSE Ok([r.val EXCEPT !.x = x[1]])
    ELSE tick_cycle(b, c)

\* The commands a caller issues: one Addx, then a pattern of one or two
\* commands over and over.  The values are small: no i32 operation of the
\* CPU overflows on them.
MaxCycles == 242
FirstArgs == {-2, -1, 0, 1}
PatternCommands == {Noop, Addx(-1), Addx(2)}
Patterns == UNION {[1..n -> PatternCommands] : n \in 1..2}
cycle(p, n) == [k \in 1..n |-> p[((k - 1) % Len(p)) + 1]]
CpuScripts ==
    {<<Addx(i)>> \o cycle(p, MaxCycles) : i \in FirstArgs, p \in Patterns}
\* Commands at the limits of i32: x * 20 and acc + x * 60 leave the i32,
\* and so does x + i, upwards and downwards
WideArgs == {2147483646, 29999999, -2147483647}
WideScripts ==
    {<<Addx(i)>> \o cycle(<<Noop>>, MaxCycles) : i \in WideArgs}
    \cup {<<Addx(2147483646), Addx(2), Noop>>,
          <<Addx(-2147483647), Addx(-2147483647), Noop>>}

\* no tree exists while another puzzle runs
NoTree ==
    /\ heap = <<>>
    /\ live = {}
    /\ cursor = 0
    /\ last = [op |-> "none", arg |-> <<>>, at |-> 0, res |-> "Ok", added |-> 0]
    /\ root_held = FALSE
    /\ input = <<>>
    /\ part_2 = FALSE
    /\ commands = <<>>
    /\ pc = "caller"
    /\ out = <<>>

InitNoTree ==
    /\ NoTree
    /\ build = "debug"

InitCpu ==
    /\ InitNoTree
    /\ cpu = CPU_new
    /\ cpu_script \in CpuScripts
    /\ cpu_ran = 0
    /\ cpu_pc = "run"
    /\ InitNoRope
    /\ InitNoCargo
    /\ InitNoMarker
    /\ InitNoMain

\* the same with the wide scripts as well, in either build
InitPixel ==
    /\ NoTree
    /\ build \in {"debug", "release"}
    /\ cpu = CPU_new
    /\ cpu_script \in CpuScripts \cup WideScripts
    /\ cpu_ran = 0
    /\ cpu_pc = "run"
    /\ InitNoRope
    /\ InitNoCargo
    /\ InitNoMarker
    /\ InitNoMain

\* cpu.run_command(command), with the next command of the caller
RunCommand ==
    /\ cpu_ran < Len(cpu_script)
    /\ cpu.cycles < MaxCycles
    /\ cpu_pc = "run"
    /\ LET r == run_command(build, cpu, cpu_script[cpu_ran + 1])
       IN  /\ cpu' = r.val
           /\ cpu_pc' = IF r.ok THEN "run" ELSE "panic"
    /\ cpu_ran' = cpu_ran + 1
    /\ UNCHANGED <<treevars, runvars, cpu_script, ropevars,
                   cargovars, markervars, mainvars>>

NextCpu ==
    RunCommand

SpecCpu == InitCpu /\ [][NextCpu]_vars
SpecPixel == InitPixel /\ [][NextCpu]_vars

\* ------------------------------------------------------------------- day 9
Directions == {"UP", "LEFT", "RIGHT", "DOWN"}

get_uniform_delta_xy(direction) ==
    CASE direction = "UP" -> <<0, 1>>
      [] direction = "LEFT" -> <<-1, 0>>
      [] direction = "RIGHT" -> <<1, 0>>
      [] direction = "DOWN" -> <<0, -1>>

abs(v) == IF v < 0 THEN -v ELSE v
signum(v) == IF v > 0 THEN 1 ELSE IF v < 0 THEN -1 ELSE 0

\* RopeTracker::build: len knots at (0,0), which the tail has visited
RopeTracker_build(len) ==
    IF len < 1 THEN Err("InvalidRopeLength")
    ELSE Ok([rope_knots |-> [k \in 0..(len - 1) |-> <<0, 0>>],
             tail_position_trail |-> <<<<0, 0>>>>])

\* follow_path_of_head: the knot after head_ind steps towards it when it is
\* more than one square away, and then the knots behind follow in turn
\* mutant: the knots behind the first follower are left where they are
follow_path_of_head_once(knots, head_ind) ==
    IF head_ind \in DOMAIN knots /\ (head_ind + 1) \in DOMAIN knots
    THEN LET hx == knots[head_ind][1]
             hy == knots[head_ind][2]
             tx == knots[head_ind + 1][1]
             ty == knots[head_ind + 1][2]
         IN  IF abs(hx - tx) <= 1 /\ abs(hy - ty) <= 1 THEN knots
             ELSE [knots EXCEPT ![head_ind + 1] =
                      <<tx + signum(hx - tx), ty + signum(hy - ty)>>]
    ELSE knots
RECURSIVE follow_path_of_head(_, _)
follow_path_of_head(knots, head_ind) ==
    IF head_ind \in DOMAIN knots /\ (head_ind + 1) \in DOMAIN knots
    THEN LET hx == knots[head_ind][1]
             hy == knots[head_ind][2]
             tx == knots[head_ind + 1][1]
             ty == knots[head_ind + 1][2]
             dx == IF hx - tx # 0 THEN signum(hx - tx) ELSE hx - tx
             dy == IF hy - ty # 0 THEN signum(hy - ty) ELSE hy - ty
         IN  IF abs(hx - tx) <= 1 /\ abs(hy - ty) <= 1 THEN knots
             ELSE follow_path_of_head(
                      [knots EXCEPT ![head_ind + 1] = <<tx + dx, ty + dy>>],
                      head_ind + 1)
    ELSE knots

\* the order of (i32, i32): by the first coordinate, then by the second
tuple_lt(a, b) == a[1] < b[1] \/ (a[1] = b[1] /\ a[2] < b[2])

\* add_tail_visit: binary_search on the sorted trail finds the position, or
\* the index at which the position keeps the trail sorted
\* mutant: the position is pushed at the end of the trail
add_tail_visit_push(r) ==
    LET pos == r.rope_knots[Cardinality(DOMAIN r.rope_knots) - 1]
        trail == r.tail_position_trail
    IN  IF \E k \in DOMAIN trail : trail[k] = pos THEN r
        ELSE [r EXCEPT !.tail_position_trail = Append(trail, pos)]
add_tail_visit(r) ==
    LET pos == r.rope_knots[Cardinality(DOMAIN r.rope_knots) - 1]
        trail == r.tail_position_trail
    IN  IF \E k \in DOMAIN trail : trail[k] = pos THEN r
        ELSE LET ind == Cardinality({k \in DOMAIN trail :
                                       tuple_lt(trail[k], pos)})
             IN  [r EXCEPT !.tail_position_trail =
                     SubSeq(trail, 1, ind) \o <<pos>> \o
                     SubSeq(trail, ind + 1, Len(trail))]

\* move_head: the head steps, the knots follow, the tail's square is noted
move_head(r, direction) ==
    LET d == get_uniform_delta_xy(direction)
        head_node == r.rope_knots[0]
        moved == [r.rope_knots EXCEPT
                    ![0] = <<head_node[1] + d[1], head_node[2] + d[2]>>]
    IN  add_tail_visit([r EXCEPT !.rope_knots = follow_path_of_head(moved, 0)])

RECURSIVE move_head_many(_, _, _)
move_head_many(r, direction, steps) ==
    IF steps <= 0 THEN r
    ELSE move_head(move_head_many(r, direction, steps - 1), direction)

get_unique_tail_visits(r) == Len(r.tail_position_trail)

\* The calls a caller makes on its rope, as the tests do: move_head, or
\* move_head_many with a number of steps
MaxKnots == 3
MaxMoves == 3
MaxSteps == 2
RopeCalls ==
    {[op |-> "move_head", direction |-> d, steps |-> 1] : d \in Directions}
    \cup {[op |-> "move_head_many", direction |-> d, steps |-> n] :
             d \in Directions, n \in 0..MaxSteps}
RopeScripts == UNION {[1..n -> RopeCalls] : n \in 0..MaxMoves}

InitRope ==
    /\ InitNoTree
    /\ InitNoCpu
    /\ \E len \in 0..MaxKnots :
          /\ RopeTracker_build(len).ok
          /\ rope = RopeTracker_build(len).val
    /\ rope_script \in RopeScripts
    /\ InitNoCargo
    /\ InitNoMarker
    /\ InitNoMain

\* rope.move_head(direction)
MoveHead ==
    /\ rope_script # <<>>
    /\ Head(rope_script).op = "move_head"
    /\ rope' = move_head(rope, Head(rope_script).direction)
    /\ rope_script' = Tail(rope_script)
    /\ UNCHANGED <<treevars, runvars, cpuvars,
                   cargovars, markervars, mainvars>>

\* rope.move_head_many(direction, steps)
MoveHeadMany ==
    /\ rope_script # <<>>
    /\ Head(rope_script).op = "move_head_many"
    /\ rope' = move_head_many(rope, Head(rope_script).direction,
                              Head(rope_script).steps)
    /\ rope_script' = Tail(rope_script)
    /\ UNCHANGED <<treevars, runvars, cpuvars,
                   cargovars, markervars, mainvars>>

NextRope ==
    \/ MoveHead
    \/ MoveHeadMany

SpecRope == InitRope /\ [][NextRope]_vars

\* ------------------------------------------------------------------- day 5
\* Cargo::new: num_stacks empty stacks, indexed from 0
Cargo_new(num_stacks) == [stacks |-> [k \in 0..(num_stacks - 1) |-> <<>>]]

\* REGEX_CAPTURE_STACKS.find_iter: the matches of (\w|\s\s\s\s), leftmost
\* first and not overlapping
RECURSIVE REGEX_CAPTURE_STACKS(_)
REGEX_CAPTURE_STACKS(s) ==
    IF s = <<>> THEN <<>>
    ELSE IF is_word(s[1]) THEN <<<<s[1]>>>> \o REGEX_CAPTURE_STACKS(Tail(s))
    ELSE IF Len(s) >= 4 /\ \A k \in 1..4 : is_whitespace(s[k])
    THEN <<SubSeq(s, 1, 4)>> \o REGEX_CAPTURE_STACKS(SubSeq(s, 5, Len(s)))
    ELSE REGEX_CAPTURE_STACKS(Tail(s))

\* An index that names no stack panics: the result is then the Err
\* "panic" with, as val, the cargo as the panic leaves it.
\* the loop of parse_row from match i on: a match that starts with a blank
\* skips its stack, another is pushed on stack i; self.stacks[i] panics
\* when there is no stack i
RECURSIVE parse_row_from(_, _, _)
parse_row_from(c, matches, i) ==
    IF i >= Len(matches) THEN Ok(c)
    ELSE IF matches[i + 1][1] = " " THEN parse_row_from(c, matches, i + 1)
    ELSE IF i \notin DOMAIN c.stacks
    THEN [ok |-> FALSE, err |-> "panic", val |-> c]
    ELSE parse_row_from(
             [c EXCEPT !.stacks[i] = Append(@, matches[i + 1][1])],
             matches, i + 1)

parse_row(c, row_str) == parse_row_from(c, REGEX_CAPTURE_STACKS(row_str), 0)

\* move_top_item_between_stacks: pop from one stack, push on the other;
\* nothing when the stack is empty; indexing a stack that is not there panics
move_top_item_between_stacks(c, from_ind, to_ind) ==
    IF from_ind \notin DOMAIN c.stacks
    THEN [ok |-> FALSE, err |-> "panic", val |-> c]
    ELSE IF Len(c.stacks[from_ind]) > 0
    THEN LET item == c.stacks[from_ind][Len(c.stacks[from_ind])]
             popped == [c EXCEPT !.stacks[from_ind] =
                           SubSeq(@, 1, Len(@) - 1)]
         IN  IF to_ind \notin DOMAIN c.stacks
             THEN [ok |-> FALSE, err |-> "panic", val |-> popped]
             ELSE Ok([popped EXCEPT !.stacks[to_ind] = Append(@, item)])
    ELSE Ok(c)

\* the branch of move_top_n_items_between_stacks taken when the stack is
\* long enough: nth on the iterator yields None past the last stack and
\* unwrap panics; the slice of the last num_items items is appended to the
\* other stack and cut off the first
\* mutant: the items are moved one at a time, the top one first
move_slice_one_by_one(c, from_ind, to_ind, num_items) ==
    IF to_ind > from_ind /\ to_ind \notin DOMAIN c.stacks
    THEN [ok |-> FALSE, err |-> "panic", val |-> c]
    ELSE IF to_ind = from_ind THEN Ok(c)
    ELSE LET from_length == Len(c.stacks[from_ind])
             items == SubSeq(c.stacks[from_ind],
                             from_length - num_items + 1, from_length)
         IN  Ok([c EXCEPT
                   !.stacks[to_ind] = @ \o
                      [k \in 1..num_items |-> items[num_items + 1 - k]],
                   !.stacks[from_ind] =
                      SubSeq(@, 1, from_length - num_items)])
move_slice(c, from_ind, to_ind, num_items) ==
    IF to_ind > from_ind /\ to_ind \notin DOMAIN c.stacks
    THEN [ok |-> FALSE, err |-> "panic", val |-> c]
    ELSE IF to_ind = from_ind THEN Ok(c)
    ELSE LET from_length == Len(c.stacks[from_ind])
             items == SubSeq(c.stacks[from_ind],
                             from_length - num_items + 1, from_length)
         IN  Ok([c EXCEPT
                   !.stacks[to_ind] = @ \o items,
                   !.stacks[from_ind] =
                      SubSeq(@, 1, from_length - num_items)])

\* move_top_n_items_between_stacks: self.stacks[from_ind] panics when there
\* is no such stack; the length is checked before anything is touched
\* mutant: a stack that is too short is moved whole
move_top_n_items_or_fewer(c, from_ind, to_ind, num_items) ==
    IF from_ind \notin DOMAIN c.stacks
    THEN [ok |-> FALSE, err |-> "panic", val |-> c]
    ELSE IF Len(c.stacks[from_ind]) >= num_items
    THEN move_slice(c, from_ind, to_ind, num_items)
    ELSE move_slice(c, from_ind, to_ind, Len(c.stacks[from_ind]))
move_top_n_items_between_stacks(c, from_ind, to_ind, num_items) ==
    IF from_ind \notin DOMAIN c.stacks
    THEN [ok |-> FALSE, err |-> "panic", val |-> c]
    ELSE IF Len(c.stacks[from_ind]) >= num_items
    THEN move_slice(c, from_ind, to_ind, num_items)
    ELSE Err("StackTooSmallError")

\* The callers are the tests: a cargo of up to MaxStacks stacks, rows of
\* items parsed onto it while it holds at most MaxItems items, and moves
\* between the indices of MaxStacks stacks, which name no stack of a cargo
\* that has fewer
MaxStacks == 3
MaxItems == 3
CargoRows ==
    { <<"[", "a", "]", " ", "[", "b", "]">>,
      <<"[", "a", "]">>,
      <<" ", " ", " ", " ", "[", "b", "]">>,
      <<"[", "b", "]", " ", "[", "a", "]">>,
      <<" ", " ", " ", " ", " ", " ", " ", " ", "[", "a", "]">> }
RECURSIVE count_items(_, _)
count_items(c, k) ==
    IF k \notin DOMAIN c.stacks THEN 0
    ELSE Len(c.stacks[k]) + count_items(c, k + 1)

InitCargo ==
    /\ InitNoTree
    /\ InitNoCpu
    /\ InitNoRope
    /\ \E num_stacks \in 0..MaxStacks : cargo = Cargo_new(num_stacks)
    /\ cargo_last = [op |-> "new", arg |-> <<>>, res |-> "Ok"]
    /\ InitNoMarker
    /\ InitNoMain

\* a call on the cargo: its outcome is noted (a panic ends the caller)
CargoCall(op, arg, r) ==
    /\ cargo' = IF r.ok \/ r.err = "panic" THEN r.val ELSE cargo
    /\ cargo_last' = [op |-> op, arg |-> arg,
                      res |-> IF r.ok THEN "Ok" ELSE r.err]
    /\ UNCHANGED <<treevars, runvars, cpuvars, ropevars,
                   markervars, mainvars>>

ParseRow(row_str) ==
    /\ cargo_last.res # "panic"
    /\ parse_row(cargo, row_str).ok =>
          count_items(parse_row(cargo, row_str).val, 0) <= MaxItems
    /\ CargoCall("parse_row", <<row_str>>, parse_row(cargo, row_str))

MoveTopItem(from_ind, to_ind) ==
    /\ cargo_last.res # "panic"
    /\ CargoCall("move_top_item_between_stacks", <<from_ind, to_ind>>,
                 move_top_item_between_stacks(cargo, from_ind, to_ind))

MoveTopNItems(from_ind, to_ind, num_items) ==
    /\ cargo_last.res # "panic"
    /\ CargoCall("move_top_n_items_between_stacks",
                 <<from_ind, to_ind, num_items>>,
                 move_top_n_items_between_stacks(cargo, from_ind, to_ind,
                                                 num_items))

NextCargo ==
    \/ \E row_str \in CargoRows : ParseRow(row_str)
    \/ \E from_ind, to_ind \in 0..(MaxStacks - 1) :
          MoveTopItem(from_ind, to_ind)
    \/ \E from_ind, to_ind \in 0..(MaxStacks - 1),
          num_items \in 0..(MaxItems + 1) :
          MoveTopNItems(from_ind, to_ind, num_items)

SpecCargo == InitCargo /\ [][NextCargo]_vars

\* ------------------------------------------------------------------- day 6
\* the characters of the streams of the callers
StreamChars == <<"a", "b", "c">>

\* check_duplicates is generic in T: PartialEq + Ord.  T is handed over
\* by name; le is the order Ord gives to two values of T.
le(T, x, y) ==
    CASE T = "char" -> char_le(x, y)
      [] T = "i32" -> x <= y

\* arr.sort(): each element is put in its place among those sorted before
RECURSIVE sort_insert(_, _, _)
sort_insert(T, sorted, x) ==
    IF sorted = <<>> THEN <<x>>
    ELSE IF le(T, x, Head(sorted)) THEN <<x>> \o sorted
    ELSE <<Head(sorted)>> \o sort_insert(T, Tail(sorted), x)
RECURSIVE sort_rec(_, _)
sort_rec(T, arr) ==
    IF arr = <<>> THEN <<>>
    ELSE sort_insert(T, sort_rec(T, SubSeq(arr, 1, Len(arr) - 1)),
                     arr[Len(arr)])
\* mutant: the vector is left as it is
sort_skipped(T, arr) == arr
sort(T, arr) == sort_rec(T, arr)

\* check_duplicates: after the sort, two equal neighbours
check_duplicates(T, arr) ==
    LET sorted == sort(T, arr)
    IN  \E i \in 0..(Len(sorted) - 1) :
           /\ i + 2 <= Len(sorted)
           /\ sorted[i + 1] = sorted[i + 2]

\* the loop of get_start_marker from character i on: recents is filled up
\* to marker_length characters, then the slot i % marker_length is replaced
RECURSIVE start_marker_from(_, _, _, _)
start_marker_from(s, m, i, recents) ==
    IF i >= Len(s) THEN None
    ELSE LET c == s[i + 1]
             kept == IF Len(recents) < m THEN Append(recents, c)
                     ELSE [recents EXCEPT ![(i % m) + 1] = c]
         IN  IF Len(kept) >= m /\ ~check_duplicates("char", kept) THEN Some(i + 1)
             ELSE start_marker_from(s, m, i + 1, kept)

\* get_start_marker: reserve(marker_length - 1) overflows and panics when
\* marker_length is 0, in either build
get_start_marker(s, m) ==
    IF m < 1 THEN Err("panic") ELSE Ok(start_marker_from(s, m, 0, <<>>))

\* The callers are the tests: a stream of up to MaxStream characters and a
\* marker length up to MaxMarker
MaxStream == 5
MaxMarker == 3
Streams == UNION {[1..n -> {StreamChars[k] : k \in DOMAIN StreamChars}] :
                     n \in 0..MaxStream}

InitMarker ==
    /\ InitNoTree
    /\ InitNoCpu
    /\ InitNoRope
    /\ InitNoCargo
    /\ stream \in Streams
    /\ marker_length \in 0..MaxMarker
    /\ start_marker = [returned |-> FALSE]
    /\ InitNoMain

\* get_start_marker(stream, marker_length)
GetStartMarker ==
    /\ ~start_marker.returned
    /\ start_marker' = [returned |-> TRUE,
                        res |-> get_start_marker(stream, marker_length)]
    /\ UNCHANGED <<treevars, runvars, cpuvars, ropevars, cargovars,
                   stream, marker_length, mainvars>>

NextMarker ==
    GetStartMarker

SpecMarker == InitMarker /\ [][NextMarker]_vars

\* -------------------------------------------------------------------- main
\* the solvers of run_challenges, by index: the number of the day
functions == [k \in 0..9 |-> k + 1]

\* A usize (of 64 bits) is written as its decimal digits, the most
\* significant first and without leading zeros: 0 is <<0>>, 12 is <<1, 2>>.
\* a <= b and a - 1 on such values
RECURSIVE strip_zeros(_)
strip_zeros(ds) ==
    IF Len(ds) > 1 /\ Head(ds) = 0 THEN strip_zeros(Tail(ds)) ELSE ds
RECURSIVE digits_le(_, _)
digits_le(a, b) ==
    IF Len(a) # Len(b) THEN Len(a) < Len(b)
    ELSE IF a = <<>> THEN TRUE
    ELSE IF Head(a) # Head(b) THEN Head(a) < Head(b)
    ELSE digits_le(Tail(a), Tail(b))
RECURSIVE digits_pred(_)
digits_pred(a) ==
    IF a[Len(a)] > 0 THEN [a EXCEPT ![Len(a)] = @ - 1]
    ELSE Append(digits_pred(SubSeq(a, 1, Len(a) - 1)), 9)
\* usize::MAX
USIZE_MAX ==
    <<1, 8, 4, 4, 6, 7, 4, 4, 0, 7, 3, 7, 0, 9, 5, 5, 1, 6, 1, 5>>

\* x - 1 on usize: None for the panic "attempt to subtract with overflow"
\* of a build with overflow checks (debug), the wrapped difference in a
\* build without them (release)
sub_1_usize(b, x) ==
    IF x = <<0>> THEN (IF b = "debug" THEN None ELSE Some(USIZE_MAX))
    ELSE Some(strip_zeros(digits_pred(x)))

\* str::parse::<usize>: digits after an optional plus sign, the Err past
\* usize::MAX
parse_usize(s) ==
    LET ds == IF Len(s) > 1 /\ Head(s) = "+" THEN Tail(s) ELSE s
        v  == strip_zeros([k \in DOMAIN ds |-> digit_value(ds[k])])
    IN  IF ds # <<>> /\ \A k \in DOMAIN ds : is_digit(ds[k])
        THEN IF digits_le(v, USIZE_MAX) THEN Ok(v) ELSE Err("ParseIntError")
        ELSE Err("ParseIntError")

\* parse_arguments, on the arguments after the program name
parse_arguments(b, args) ==
    IF Len(args) > 1 THEN Err("Unsupported number of arguments (0 or 1).")
    ELSE IF Len(args) = 0 THEN Ok(<<0>>)
    ELSE LET n == parse_usize(args[1])
         IN  IF ~n.ok THEN n
             ELSE IF sub_1_usize(b, n.val) = None THEN Err("panic")
             ELSE Ok(sub_1_usize(b, n.val)[1])

\* run_challenges and run_challenge_parts: the calls f(part) to be made, in
\* order, as long as each returns Ok; functions[specific_challenge] panics
\* when the index is out of bounds, as every index of two digits or more is
run_challenges(sc) ==
    IF sc # <<0>>
    THEN IF Len(sc) = 1 /\ sc[1] \in DOMAIN functions
         THEN Ok(<<[day |-> functions[sc[1]], part_2 |-> FALSE],
                   [day |-> functions[sc[1]], part_2 |-> TRUE]>>)
         ELSE Err("panic")
    ELSE Ok([k \in 1..(2 * Cardinality(DOMAIN functions)) |->
                [day |-> functions[(k - 1) \div 2],
                 part_2 |-> (k - 1) % 2 = 1]])

\* The arguments of the process: none, one number up to MaxArg, one past
\* the 32 bits, usize::MAX and the number after it, a number with a sign
\* and with leading zeros, one that is no number, or two
MaxArg == 11
ArgText(n) ==
    IF n < 10 THEN <<DigitChars[n + 1]>>
    ELSE <<DigitChars[(n \div 10) + 1], DigitChars[(n % 10) + 1]>>
BigArgs ==
    {<<"4", "2", "9", "4", "9", "6", "7", "2", "9", "6">>,
     [k \in DOMAIN USIZE_MAX |-> DigitChars[USIZE_MAX[k] + 1]],
     [k \in DOMAIN USIZE_MAX |->
         IF k = Len(USIZE_MAX) THEN "6" ELSE DigitChars[USIZE_MAX[k] + 1]],
     <<"+", "0", "3">>}
MainArgs ==
    {<<>>, <<<<"x">>>>, <<<<"1">>, <<"2">>>>}
    \cup {<<ArgText(n)>> : n \in 0..MaxArg}
    \cup {<<a>> : a \in BigArgs}

InitMain ==
    /\ NoTree
    /\ build \in {"debug", "release"}
    /\ InitNoCpu
    /\ InitNoRope
    /\ InitNoCargo
    /\ InitNoMarker
    /\ argv \in MainArgs
    /\ main_pc = "start"
    /\ specific_challenge = None
    /\ ran = <<>>
    /\ exit_code = None

\* main: parse_arguments; an Err is printed and the process exits with 1,
\* a panic ends it with 101
ParseArguments ==
    LET r == parse_arguments(build, argv)
    IN  /\ main_pc = "start"
        /\ main_pc' = IF r.ok THEN "run"
                      ELSE IF r.err = "panic" THEN "panic" ELSE "exit"
        /\ specific_challenge' = IF r.ok THEN Some(r.val) ELSE None
        /\ exit_code' = IF r.ok THEN None
                        ELSE IF r.err = "panic" THEN Some(101) ELSE Some(1)
        /\ UNCHANGED <<treevars, runvars, cpuvars, ropevars, cargovars,
                       markervars, argv, ran>>

\* run_challenges is entered: the solvers to call are picked
RunChallenges ==
    LET r == run_challenges(specific_challenge[1])
    IN  /\ main_pc = "run"
        /\ main_pc' = IF r.ok THEN "solve" ELSE "panic"
        /\ exit_code' = IF r.ok THEN None ELSE Some(101)
        /\ UNCHANGED <<treevars, runvars, cpuvars, ropevars, cargovars,
                       markervars, argv, specific_challenge, ran>>

\* one call f(part) of run_challenge_parts, with what the solver returns:
\* Ok goes on to the next call or, after the last, to exit(0); an Err is
\* passed up by `?` to main, which exits with 1; a panic ends the process
SolverCall(res) ==
    LET calls == run_challenges(specific_challenge[1]).val
        call == calls[Len(ran) + 1]
    IN  /\ main_pc = "solve"
        /\ ran' = Append(ran, [day |-> call.day, part_2 |-> call.part_2,
                               res |-> res])
        /\ main_pc' = IF res = "panic" THEN "panic"
                      ELSE IF res = "Err" \/ Len(ran') = Len(calls)
                      THEN "exit" ELSE "solve"
        /\ exit_code' = IF res = "panic" THEN Some(101)
                        ELSE IF res = "Err" THEN Some(1)
                        ELSE IF Len(ran') = Len(calls) THEN Some(0)
                        ELSE None
        /\ UNCHANGED <<treevars, runvars, cpuvars, ropevars, cargovars,
                       markervars, argv, specific_challenge>>

NextMain ==
    \/ ParseArguments
    \/ RunChallenges
    \/ \E res \in {"Ok", "Err", "panic"} : SolverCall(res)

SpecMain == InitMain /\ [][NextMain]_vars

\* ------------------------------------------------- vocabulary of the claims
Nodes == DOMAIN heap
IsFolder(n) == heap[n].kind = "Folder"
IsFile(n) == heap[n].kind = "File"

\* the nodes found by following child maps down from n (n included)
RECURSIVE Below(_, _)
Below(n, fuel) ==
    IF fuel = 0 \/ IsFile(n) THEN {n}
    ELSE {n} \cup UNION {Below(heap[n].children[k], fuel - 1) :
                            k \in DOMAIN heap[n].children}
Subtree(n) == Below(n, Len(heap))

\* the sum of the literal sizes of a set of File nodes
RECURSIVE SumFileSizes(_)
SumFileSizes(S) ==
    IF S = {} THEN 0
    ELSE LET x == CHOOSE y \in S : TRUE IN heap[x].size + SumFileSizes(S \ {x})

\* the total of the literal sizes of the files at or below n
TotalSize(n) == SumFileSizes({m \in Subtree(n) : IsFile(m)})

\* number of EnterChild steps that lead from the root to n
RECURSIVE Level(_)
Level(d) ==
    IF d = 0 THEN {Root}
    ELSE UNION {{heap[p].children[k] : k \in DOMAIN heap[p].children} :
                   p \in {q \in Level(d - 1) : IsFolder(q)}}
Depth(n) == CHOOSE d \in 0..Len(heap) : n \in Level(d)

\* ----------------------------------------------------------------------- C1
\* C1: after every successfully applied instruction the cursor points at a
\* Directory node, never at a File node (EnterChild of a file child included).
CursorIsDirectory == heap[cursor].kind = "Folder"

\* ----------------------------------------------------------------------- C2
\* C2: exactly one node, the root created by DirectoryNode::new, has no
\* parent, and the parent of every other node is a Folder whose child map
\* contains that node under a name.
TreeShape ==
    /\ {n \in Nodes : heap[n].parent = None} = {Root}
    /\ \A n \in Nodes \ {Root} :
          LET p == heap[n].parent[1]
          IN  /\ p \in Nodes
              /\ heap[p].kind = "Folder"
              /\ \E k \in DOMAIN heap[p].children : heap[p].children[k] = n

\* a node has just been added two levels below the root
TreeShapeWitness ==
    /\ last.op \in {"add_subfile", "add_subfolder"} /\ last.added = 1
    /\ \E c, d \in Nodes \ {Root} :
          /\ heap[c].parent = Some(d)
          /\ heap[d].parent = Some(Root)
          /\ Len(heap) = c

\* ----------------------------------------------------------------------- C3
\* the sum, over the children stored under `keys`, of their calculate_size
RECURSIVE SumOfChildren(_, _, _)
SumOfChildren(n, keys, ord) ==
    IF keys = {} THEN 0
    ELSE LET k == CHOOSE x \in keys : TRUE
         IN  calculate_size(build, heap, heap[n].children[k], ord)[1]
               + SumOfChildren(n, keys \ {k}, ord)

\* C3: calculate_size of a file is its literal size; calculate_size of a
\* directory is the sum of calculate_size over its direct children, hence the
\* total of the files below it at any depth, and 0 for an empty directory.
SizeIsRecursiveSum ==
    \A ord \in orders_of(heap), n \in Nodes :
       /\ IsFile(n) => calculate_size(build, heap, n, ord) = Some(heap[n].size)
       /\ IsFolder(n) =>
            /\ calculate_size(build, heap, n, ord)
                 = Some(SumOfChildren(n, DOMAIN heap[n].children, ord))
            /\ calculate_size(build, heap, n, ord) = Some(TotalSize(n))
            /\ heap[n].children = EmptyMap
                 => calculate_size(build, heap, n, ord) = Some(0)

\* the tree root{dir{file 2}} has just been completed by add_subfile: the
\* file counts in its directory and, one level up, in the root
SizeIsRecursiveSumWitness ==
    /\ last.op = "add_subfile" /\ last.added = 1
    /\ \E d \in Nodes \ {Root}, ord \in orders_of(heap) :
          /\ IsFolder(d)
          /\ calculate_size(build, heap, d, ord) = Some(2)
          /\ calculate_size(build, heap, Root, ord) = Some(2)

\* ----------------------------------------------------------------------- C4
RECURSIVE SumTotalSizes(_)
SumTotalSizes(S) ==
    IF S = {} THEN 0
    ELSE LET x == CHOOSE y \in S : TRUE IN TotalSize(x) + SumTotalSizes(S \ {x})

Thresholds == 0..MaxThreshold

\* C4: sum_directory_sizes_under_max(threshold) on the root is the sum, over
\* every directory node of the tree (root included, each counted once, nested
\* ones independently), of its total size when strictly below the threshold;
\* files are not elements and a size equal to the threshold is left out.
SumUnderMaxIsStrict ==
    \A ord \in orders_of(heap), t \in Thresholds :
       sum_directory_sizes_under_max(build, heap, Root, t, ord)
         = Some(SumTotalSizes({d \in Nodes : IsFolder(d) /\ TotalSize(d) < t}))

\* root{dir{file 2}}: the root and the nested directory (size 2 each) both
\* count under 3, the file does not, and neither directory counts under 2
SumUnderMaxWitness ==
    \E ord \in orders_of(heap) :
       /\ \E f \in Nodes : IsFile(f) /\ heap[f].size = 2 /\ heap[f].parent # Some(Root)
       /\ sum_directory_sizes_under_max(build, heap, Root, 3, ord) = Some(4)
       /\ sum_directory_sizes_under_max(build, heap, Root, 2, ord) = Some(0)

\* ----------------------------------------------------------------------- C5
SetMin(S) == CHOOSE x \in S : \A y \in S : x <= y

\* C5: smallest_directory_size_over_min(minimum) on the root is the least
\* total size among the directories whose size is strictly greater than the
\* minimum, and None when there is none.
SmallestOverMinIsStrict ==
    \A ord \in orders_of(heap), m \in Thresholds :
       LET S == {TotalSize(d) : d \in {x \in Nodes : IsFolder(x) /\ TotalSize(x) > m}}
       IN  smallest_directory_size_over_min(build, heap, Root, m, ord)
             = Some(IF S = {} THEN None ELSE Some(SetMin(S)))

\* root{a{file 1}, b{file MaxSize}}: three directories of the distinct
\* sizes 1, MaxSize and 1 + MaxSize.  Over 0 all three qualify and the
\* answer is the least, 1; over 1 the directory of size exactly 1 is out and
\* the answer is MaxSize; over MaxSize it is the root's size; over that,
\* None; and so in whichever order the map of the root yields a and b.
SmallestOverMinWitness ==
    /\ \E d, e \in Nodes :
          /\ IsFolder(d) /\ heap[d].parent = Some(Root) /\ TotalSize(d) = 1
          /\ IsFolder(e) /\ heap[e].parent = Some(Root)
          /\ TotalSize(e) = MaxSize
    /\ MaxSize > 1
    /\ \A ord \in orders_of(heap) :
          /\ smallest_directory_size_over_min(build, heap, Root, 0, ord)
               = Some(Some(1))
          /\ smallest_directory_size_over_min(build, heap, Root, 1, ord)
               = Some(Some(MaxSize))
          /\ smallest_directory_size_over_min(build, heap, Root, MaxSize, ord)
               = Some(Some(1 + MaxSize))
          /\ smallest_directory_size_over_min(build, heap, Root, 1 + MaxSize,
                                              ord)
               = Some(None)

\* ----------------------------------------------------------------------- C6
\* C6: add_subfile(name, s1) followed by add_subfile(name, s2) on the same
\* directory leaves the tree as the first call left it: one child called
\* name (one cell per key of the child map), which is a file of size s1 when
\* the first call found the name vacant, and the same total size.
FirstWriteWins ==
    \A n \in Nodes, name \in Names, s1 \in Sizes, s2 \in Sizes :
       IsFolder(n) =>
          LET h1 == add_subfile(heap, n, name, s1)
              h2 == add_subfile(h1, n, name, s2)
          IN  /\ h2 = h1
              /\ name \in DOMAIN h2[n].children
              /\ Cardinality({c \in DOMAIN h2 : h2[c].parent = Some(n)})
                   = Cardinality(DOMAIN h2[n].children)
              /\ name \notin DOMAIN heap[n].children
                   => h2[h2[n].children[name]] = File(Some(n), s1)
              /\ \A o1 \in orders_of(h1), o2 \in orders_of(h2) :
                    calculate_size(build, h2, n, o2)
                      = calculate_size(build, h1, n, o1)

\* add_subfile has just been called on a directory with the name of one of
\* its files and another size: nothing was allocated, the size is the old one
FirstWriteWinsWitness ==
    /\ last.op = "add_subfile" /\ last.added = 0
    /\ IsFolder(last.at)
    /\ last.arg[1] \in DOMAIN heap[last.at].children
    /\ IsFile(heap[last.at].children[last.arg[1]])
    /\ heap[heap[last.at].children[last.arg[1]]].size # last.arg[2]

\* ----------------------------------------------------------------------- C7
\* C7: every step keeps every node under the same parent and name, with
\* the same kind and (for a file) the same size; so inserting a taken name
\* leaves the existing child and its subtree as they were.
AppendOnly ==
    [][\A n \in DOMAIN heap :
          /\ n \in DOMAIN heap'
          /\ heap'[n].kind = heap[n].kind
          /\ heap'[n].parent = heap[n].parent
          /\ heap[n].kind = "File" => heap'[n].size = heap[n].size
          /\ heap[n].kind = "Folder" =>
                \A k \in DOMAIN heap[n].children :
                   /\ k \in DOMAIN heap'[n].children
                   /\ heap'[n].children[k] = heap[n].children[k]]_vars

\* the root has just been listed with the line `dir a` while its directory a
\* already had a child
AppendOnlyWitness ==
    /\ last.op = "Ls" /\ last.res = "Ok" /\ last.at = Root
    /\ last.arg = Ls(<<<<"d", "i", "r", " ", "a">>>>)
    /\ last.added = 0
    /\ IsFolder(heap[Root].children[<<"a">>])
    /\ heap[heap[Root].children[<<"a">>]].children # EmptyMap

\* ----------------------------------------------------------------------- C8
RECURSIVE ExitToParentTimes(_, _)
ExitToParentTimes(n, k) ==
    IF k = 0 THEN n
    ELSE ExitToParentTimes(command(heap, live, n, CdOutOfFolder).val, k - 1)

\* C8: from a node at depth N, ExitToParent applied N times yields the node
\* that GoToRoot yields; and EnterChild(name) followed by ExitToParent
\* returns to the node it started from.
NavigationRoundTrip ==
    \A n \in Nodes :
       /\ ExitToParentTimes(n, Depth(n)) = command(heap, live, n, CdToRoot).val
       /\ \A name \in Names :
             LET r == command(heap, live, n, CdIntoFolder(name))
             IN  r.ok => command(heap, live, r.val, CdOutOfFolder).val = n

\* the cursor has just entered a directory two levels below the root
NavigationRoundTripWitness ==
    /\ last.op = "CdIntoFolder" /\ last.res = "Ok"
    /\ IsFolder(cursor)
    /\ Depth(cursor) = 2
    /\ Depth(last.at) = 1

\* ----------------------------------------------------------------------- C9
\* C9: get_parent on the root is None; ExitToParent at the root succeeds,
\* returns the root and leaves the tree unchanged; ExitToParent fails at no
\* node.
RootBoundary ==
    /\ get_parent(heap, live, Root) = None
    /\ command(heap, live, Root, CdOutOfFolder)
         = [ok |-> TRUE, val |-> Root, heap |-> heap]
    /\ \A n \in Nodes : command(heap, live, n, CdOutOfFolder).ok

\* ExitToParent has just been applied at the root of a tree with children
RootBoundaryWitness ==
    /\ last.op = "CdOutOfFolder" /\ last.res = "Ok"
    /\ last.at = Root
    /\ cursor = Root
    /\ heap[Root].children # EmptyMap

\* ---------------------------------------------------------------------- C10
\* C10: while the root is kept alive, GoToRoot from any node succeeds, leaves
\* the tree unchanged and yields the root: the one node without parent, whose
\* total size is the total of all the files of the tree.
GoToRootIsRoot ==
    Root \in live =>
       \A n \in Nodes :
          LET r == command(heap, live, n, CdToRoot)
          IN  /\ r.ok
              /\ r.val = Root
              /\ heap[r.val].parent = None
              /\ r.heap = heap
              /\ \A ord \in orders_of(heap) :
                    calculate_size(build, heap, r.val, ord)
                      = Some(SumFileSizes({m \in Nodes : IsFile(m)}))

\* GoToRoot has just been applied in a directory two levels below the root
GoToRootWitness ==
    /\ last.op = "CdToRoot" /\ last.res = "Ok"
    /\ Depth(last.at) = 2
    /\ IsFolder(last.at)
    /\ cursor = Root
\* ---------------------------------------------------------------------- C11
\* C11: get_subfolder on a Folder returns the handle of the child stored
\* under the name when there is one and DirectoryEntryNotExistError when
\* there is none; on a File it returns DirectoryEntryTypeError for every
\* name; entering a child leaves the tree as it was in every case (a failed
\* lookup inserts nothing), and a caller whose lookup failed keeps its
\* cursor.
GetSubfolderLookup ==
    /\ \A n \in Nodes, name \in Names :
          LET g == get_subfolder(heap, n, name)
              r == command(heap, live, n, CdIntoFolder(name))
          IN  /\ IsFolder(n) /\ name \in DOMAIN heap[n].children
                    => /\ g = Ok(heap[n].children[name])
                       /\ r.ok /\ r.val = heap[n].children[name]
              /\ IsFolder(n) /\ name \notin DOMAIN heap[n].children
                    => /\ g = Err("DirectoryEntryNotExistError")
                       /\ ~r.ok /\ r.err = "DirectoryEntryNotExistError"
              /\ IsFile(n)
                    => /\ g = Err("DirectoryEntryTypeError")
                       /\ ~r.ok /\ r.err = "DirectoryEntryTypeError"
              /\ r.heap = heap
    /\ last.op = "CdIntoFolder" /\ last.res # "Ok"
          => cursor = last.at /\ last.added = 0

\* a lookup has just failed on a File node, after one that failed on a
\* Folder would have: the cursor stands on a File it entered, and a Folder
\* of the tree lacks one of the names
GetSubfolderLookupWitness ==
    /\ last.op = "CdIntoFolder"
    /\ last.res = "DirectoryEntryTypeError"
    /\ IsFile(cursor)
    /\ cursor = last.at
    /\ \E n \in Nodes, name \in Names :
          IsFolder(n) /\ name \notin DOMAIN heap[n].children

\* ---------------------------------------------------------------------- C12
\* the entry lines of the two forms, and the name a line gives
IsDirLine(l) == REGEX_DIRECTORYENTRY_FOLDER(trim(l)) # None
IsFileLine(l) == REGEX_DIRECTORYENTRY_FILE(trim(l)) # None
EntryName(l) ==
    IF IsDirLine(l) THEN REGEX_DIRECTORYENTRY_FOLDER(trim(l))[1][1]
    ELSE REGEX_DIRECTORYENTRY_FILE(trim(l))[1][2]
EntrySizeDigits(l) == REGEX_DIRECTORYENTRY_FILE(trim(l))[1][1]

\* the listings handed to Ls in the claims: those replayed, one whose
\* integer is 2^32, and one with such a line before a line of neither form
LsProbes ==
    LsInputs \cup
    { <<<<"4", "2", "9", "4", "9", "6", "7", "2", "9", "6", " ", "a">>>>,
      <<<<"1", " ", "b">>,
        <<"4", "2", "9", "4", "9", "6", "7", "2", "9", "6", " ", "a">>,
        <<"?">>>> }

\* C12: Ls applied at a directory succeeds when every entry line is
\* `dir <name>` or `<integer> <name>` and returns the node it was applied
\* at; every name listed is then a child of that directory, a name that was
\* free being an empty subdirectory or a file of the listed size; every
\* other node and every child already there are untouched; when a line has
\* neither form the instruction fails with the syntax error.
ListEntriesPopulates ==
    \A n \in {m \in Nodes : IsFolder(m)}, files \in LsProbes :
        LET r == command(heap, live, n, Ls(files))
            lines == 1..Len(files)
            first(i) == /\ EntryName(files[i]) \notin DOMAIN heap[n].children
                        /\ \A j \in 1..(i - 1) :
                              EntryName(files[j]) # EntryName(files[i])
        IN  IF \A i \in lines : IsDirLine(files[i]) \/ IsFileLine(files[i])
            THEN /\ r.ok
                 /\ r.val = n
                 /\ DOMAIN r.heap[n].children =
                       DOMAIN heap[n].children \cup
                       {EntryName(files[i]) : i \in lines}
                 /\ \A i \in lines :
                       first(i) =>
                         LET c == r.heap[n].children[EntryName(files[i])]
                         IN  IF IsDirLine(files[i])
                             THEN r.heap[c] = Folder(Some(n), EmptyMap)
                             ELSE r.heap[c] =
                                    File(Some(n),
                                         digits_value(EntrySizeDigits(files[i]))[1])
                 /\ \A m \in Nodes \ {n} : r.heap[m] = heap[m]
                 /\ \A k \in DOMAIN heap[n].children :
                       r.heap[n].children[k] = heap[n].children[k]
            ELSE ~r.ok /\ r.err = "Syntax"

\* ---------------------------------------------------------------------- C13
\* the commands of the input, as run hands them to from_line
Pieces == SelectSeq(split(trim(input), "$"), LAMBDA l : Len(l) > 0)

\* C13: when the input is the one command `ls` without entry lines
\* (whatever whitespace surrounds it), from_line returns an Ls command, and
\* applying it succeeds and leaves the tree and the cursor as they were.
BareLsAccepted ==
    (Len(Pieces) = 1 /\ trim(Pieces[1]) = <<"l", "s">>)
        => /\ last.op = "parse" => /\ last.res = "Ok"
                                   /\ last.arg[1].ok
                                   /\ last.arg[1].val.type = "Ls"
           /\ last.op = "Ls" => /\ last.res = "Ok"
                                /\ heap = new
                                /\ cursor = Root
           /\ pc # "panic"

\* ---------------------------------------------------------------------- C14
\* a trimmed line that is wholly `cd /`, `cd ..`, `cd <name>` with a name of
\* word characters, or `ls` alone or followed by entry lines
WhollyCommand(l) ==
    \/ l = <<"c", "d", " ", "/">>
    \/ l = <<"c", "d", " ", ".", ".">>
    \/ /\ Len(l) >= 4
       /\ SubSeq(l, 1, 3) = <<"c", "d", " ">>
       /\ \A i \in 4..Len(l) : is_word(l[i])
    \/ l = <<"l", "s">>
    \/ /\ Len(l) >= 3
       /\ SubSeq(l, 1, 2) = <<"l", "s">>
       /\ is_whitespace(l[3])

\* C14: from_line returns, for every command of the input, either a
\* ParsedCommand or the syntax error carrying the trimmed line, and it
\* returns a ParsedCommand only for a line that is wholly of one of the
\* four forms.
FromLineTotalAndStrict ==
    last.op = "parse" =>
        \A i \in 1..Len(Pieces) :
            LET r == last.arg[i]
                l == trim(Pieces[i])
            IN  /\ r.ok \/ (r.err = "Syntax" /\ r.text = l)
                /\ r.ok <=> WhollyCommand(l)

\* ---------------------------------------------------------------------- C15
\* C15: the name of every CdIntoFolder that from_line returns is a
\* non-empty string of word characters.
EnterChildNameIsWord ==
    last.op = "parse" =>
        \A i \in 1..Len(Pieces) :
            LET r == last.arg[i]
            IN  (r.ok /\ r.val.type = "CdIntoFolder")
                    => /\ r.val.name # <<>>
                       /\ \A k \in 1..Len(r.val.name) : is_word(r.val.name[k])

\* ---------------------------------------------------------------------- C16
\* the replay of the first k commands of the input, one after the other
\* from the fresh root, stopping at the first that fails to parse or to
\* apply: whether all succeeded, the tree and the cursor
RECURSIVE Replayed(_)
Replayed(k) ==
    IF k = 0 THEN [ok |-> TRUE, heap |-> new, cursor |-> Root]
    ELSE LET p == Replayed(k - 1)
             c == from_line(Pieces[k])
         IN  IF ~p.ok THEN p
             ELSE IF ~c.ok THEN [ok |-> FALSE, heap |-> p.heap, cursor |-> p.cursor]
             ELSE LET r == command(p.heap, DOMAIN p.heap, p.cursor, c.val)
                  IN  [ok |-> r.ok, heap |-> r.heap,
                       cursor |-> IF r.ok THEN r.val ELSE p.cursor]

\* C16: when a command or an entry line of the input fails to parse, or a
\* lookup fails, run ends by returning Err without panicking and without
\* printing; the tree is then the one built by the commands before the
\* failing one (and by the failing one up to its failure), and no later
\* command has been applied.
ReplayFailureIsErr ==
    (pc \in {"done", "err", "panic"} /\ last.op # "read"
        /\ ~Replayed(Len(Pieces)).ok)
        => /\ pc = "err"
           /\ out = <<>>
           /\ heap = Replayed(Len(Pieces)).heap
           /\ cursor = Replayed(Len(Pieces)).cursor

\* ---------------------------------------------------------------------- C17
\* C17: when part 2 of run has made its query and no directory of the tree
\* is larger than the minimum it passed, the query result is None and run
\* ends without a panic and without printing a size.
NoneQueryHandled ==
    \A ord \in orders_of(heap) :
        LET total == calculate_size(build, heap, Root, ord)
            m == min_deletion_size(build, total[1])
            sizes == get_all_directory_sizes(build, heap, Root, ord)[1][1]
        IN  (/\ last.op = "part_2"
             /\ total # None
             /\ m.min_deletion_size # None
             /\ \A i \in 1..Len(sizes) :
                   ~lt_u32(m.min_deletion_size[1], sizes[i]))
                => /\ smallest_directory_size_over_min(
                          build, heap, Root, m.min_deletion_size[1], ord)
                        = Some(None)
                   /\ pc # "panic"
                   /\ out = <<>>

\* ---------------------------------------------------------------------- C18
\* C18: when part 2 of run has computed its minimum, neither
\* TOTAL_SPACE - total nor SPACE_REQUIRED_FOR_UPDATE - free_space has
\* underflowed, total being the size of the root, and the minimum is
\* SPACE_REQUIRED_FOR_UPDATE - (TOTAL_SPACE - total).
SubtractionsDoNotUnderflow ==
    last.op = "part_2" =>
        \A ord \in orders_of(heap) :
            LET total == calculate_size(build, heap, Root, ord)[1]
                m == min_deletion_size(build, total)
            IN  /\ ~lt_u32(TOTAL_SPACE, total)
                /\ ~lt_u32(SPACE_REQUIRED_FOR_UPDATE, TOTAL_SPACE - total)
                /\ m.min_deletion_size =
                       Some(SPACE_REQUIRED_FOR_UPDATE - (TOTAL_SPACE - total))

\* ---------------------------------------------------------------------- C19
QueryOps ==
    {"calculate_size", "get_all_directory_sizes",
     "sum_directory_sizes_under_max", "smallest_directory_size_over_min"}

\* what the two queries without a threshold return at node n under order
\* ord, and what the two with the threshold t return
QueryValues(h, n, ord) ==
    <<calculate_size(build, h, n, ord),
      get_all_directory_sizes(build, h, n, ord)>>
ThresholdValues(h, n, t, ord) ==
    <<sum_directory_sizes_under_max(build, h, n, t, ord),
      smallest_directory_size_over_min(build, h, n, t, ord)>>

\* C19: a call of calculate_size, get_all_directory_sizes,
\* sum_directory_sizes_under_max or smallest_directory_size_over_min leaves
\* every cell (kind, child map, parent reference, file size), the live
\* cells and the cursor as they were, so that each of the four queries
\* returns after the call, at every node and for every threshold, what it
\* returned before it.
QueriesAreReadOnly ==
    [][last'.op \in QueryOps =>
          /\ heap' = heap
          /\ live' = live
          /\ cursor' = cursor
          /\ \A n \in Nodes, ord \in orders_of(heap) :
                /\ QueryValues(heap', n, ord) = QueryValues(heap, n, ord)
                /\ \A t \in QueryArgs :
                      ThresholdValues(heap', n, t, ord)
                          = ThresholdValues(heap, n, t, ord)]_vars

\* a query has just been made on a directory that holds a file of non-zero
\* size and a subdirectory, after another query
QueriesAreReadOnlyWitness ==
    /\ last.op = "smallest_directory_size_over_min"
    /\ last.res \notin {None, Some(None)}
    /\ IsFolder(cursor)
    /\ \E k \in DOMAIN heap[cursor].children :
          /\ IsFile(heap[cursor].children[k])
          /\ heap[heap[cursor].children[k]].size > 0
    /\ \E k \in DOMAIN heap[cursor].children : IsFolder(heap[cursor].children[k])

\* ---------------------------------------------------------------------- C20
\* the cells a cell owns, directly or through the cells it owns
OwnedBy(n) == owned(heap, {e[2] : e \in {x \in strong_edges(heap) : x[1] = n}})

\* C20: the strong references between cells are exactly the edges from a
\* parent to the children of its child map and form no cycle; the cells
\* alive are those the handles held reach through them; a handle on a
\* descendant keeps no ancestor alive, so that once the handle on the root
\* is released and the cursor is elsewhere the root is dropped and
\* get_parent on a surviving child of the root returns None.
OwnershipTopDown ==
    /\ strong_edges(heap) =
          {<<heap[c].parent[1], c>> : c \in {m \in Nodes : heap[m].parent # None}}
    /\ \A n \in Nodes : n \notin OwnedBy(n)
    /\ live = owned(heap, handles(cursor, root_held))
    /\ \A a \in Nodes :
          (~root_held /\ cursor \in OwnedBy(a)) => a \notin live
    /\ \A c \in live :
          (~root_held /\ cursor # Root /\ heap[c].parent = Some(Root))
              => get_parent(heap, live, c) = None

\* the handle on the root was released while the cursor stood on a child of
\* the root; that child survives, the root does not, and the command `cd ..`
\* just applied at the child found no parent and stayed
OwnershipTopDownWitness ==
    /\ ~root_held
    /\ cursor # Root
    /\ heap[cursor].parent = Some(Root)
    /\ cursor \in live
    /\ Root \notin live
    /\ last.op = "CdOutOfFolder"
    /\ last.at = cursor
    /\ get_parent(heap, live, cursor) = None


\* ---------------------------------------------------------------------- C21
\* C21: the size part 2 of run prints, the result of
\* smallest_directory_size_over_min on the root, is the least total size
\* among the directories whose size is at least the missing space
\* SPACE_REQUIRED_FOR_UPDATE - (TOTAL_SPACE - total): a directory of exactly
\* that size is eligible.
SmallestIsAtLeastMin ==
    (pc = "done" /\ part_2) =>
       LET missing == SPACE_REQUIRED_FOR_UPDATE - (TOTAL_SPACE - TotalSize(Root))
           S == {TotalSize(d) :
                    d \in {x \in Nodes : IsFolder(x) /\ TotalSize(x) >= missing}}
       IN  out = <<[part |-> 2, size_val |-> SetMin(S)]>>


\* ---------------------------------------------------------------------- C22
\* the number of elements of the sequence s equal to v
Count(s, v) == Cardinality({i \in 1..Len(s) : s[i] = v})
\* the directories strictly beneath n
DirsBeneath(n) == {d \in Subtree(n) \ {n} : IsFolder(d)}

\* the list holds the size of n and one element, its total size, for every
\* directory strictly beneath n, and nothing else
ListsNodeAndDirsBeneath(n, list) ==
    /\ Len(list) = 1 + Cardinality(DirsBeneath(n))
    /\ \A v \in {TotalSize(d) : d \in Nodes} \cup {list[i] : i \in 1..Len(list)} :
          Count(list, v) = (IF TotalSize(n) = v THEN 1 ELSE 0)
                           + Cardinality({d \in DirsBeneath(n) : TotalSize(d) = v})

\* C22 as stated: on any node, File nodes included, the list of
\* get_all_directory_sizes holds the size of the node and one element per
\* directory strictly beneath it, none for a file; the second component is
\* the total size of the node, and so is the last element on a directory.
AllSizesOnAnyNode ==
    \A ord \in orders_of(heap), n \in Nodes :
       LET r == get_all_directory_sizes(build, heap, n, ord)[1]
       IN  /\ ListsNodeAndDirsBeneath(n, r[1])
           /\ r[2] = TotalSize(n)
           /\ IsFolder(n) => r[1][Len(r[1])] = TotalSize(n)

\* C22 amended: on a directory the list holds the size of the directory,
\* as its last element, and one element per directory strictly beneath it,
\* none for a file; on a File node the list is empty; in both cases the
\* second component is the total size of the node.
AllSizesOfDirectories ==
    \A ord \in orders_of(heap), n \in Nodes :
       LET r == get_all_directory_sizes(build, heap, n, ord)[1]
       IN  /\ IsFolder(n) => /\ ListsNodeAndDirsBeneath(n, r[1])
                             /\ r[1][Len(r[1])] = TotalSize(n)
           /\ IsFile(n) => r[1] = <<>>
           /\ r[2] = TotalSize(n)

\* root{dir{file 2}}: the list of the root is <<2, 2>> (the nested directory,
\* then the root), that of the file is empty
AllSizesOfDirectoriesWitness ==
    \E ord \in orders_of(heap), d \in Nodes, f \in Nodes :
       /\ IsFolder(d) /\ heap[d].parent = Some(Root)
       /\ IsFile(f) /\ heap[f].parent = Some(d) /\ heap[f].size = 2
       /\ get_all_directory_sizes(build, heap, Root, ord) = Some(<<<<2, 2>>, 2>>)
       /\ get_all_directory_sizes(build, heap, f, ord) = Some(<<<<>>, 2>>)


\* ---------------------------------------------------------------------- C23
\* C23: when run has applied an Ls, every entry line of the file form
\* `<digits> <name>` that was reached (the lines before it being of one of
\* the two forms) was accepted without a panic, and its name is a child of
\* the directory: a File of the size written when the name was free before.
SizeConversionCannotFail ==
    last.op = "Ls" =>
        LET files == last.arg.files
        IN  \A i \in 1..Len(files) :
               (/\ IsFileLine(files[i])
                /\ \A j \in 1..(i - 1) :
                      IsDirLine(files[j]) \/ IsFileLine(files[j]))
                  => /\ last.res # "panic"
                     /\ EntryName(files[i]) \in DOMAIN heap[last.at].children
                     /\ (/\ last.added = Len(files)
                         /\ \A j \in 1..(i - 1) :
                               EntryName(files[j]) # EntryName(files[i]))
                           => heap[heap[last.at].children[EntryName(files[i])]]
                                = File(Some(last.at),
                                       digits_value(EntrySizeDigits(files[i]))[1])


\* ---------------------------------------------------------------------- C24
\* the node reached from n by k calls of get_parent (the walk stays where
\* get_parent returns None)
RECURSIVE Walk(_, _)
Walk(n, k) ==
    IF k = 0 THEN n
    ELSE LET m == Walk(n, k - 1)
         IN  IF get_parent(heap, live, m) # None
             THEN get_parent(heap, live, m)[1]
             ELSE m

\* C24: from every node, get_parent succeeds at each of the first Depth(n)
\* steps of the walk upwards and returns None at the node then reached, so
\* the loop of get_root ends after Depth(n) iterations, at that node.
GetRootTerminates ==
    \A n \in Nodes :
       /\ \A k \in 0..(Depth(n) - 1) : get_parent(heap, live, Walk(n, k)) # None
       /\ get_parent(heap, live, Walk(n, Depth(n))) = None
       /\ get_root(heap, live, n) = Walk(n, Depth(n))
       /\ command(heap, live, n, CdToRoot).ok

\* GoToRoot has just been applied one level below the root, in a directory
\* that holds a file: from the file the walk takes two steps
GetRootTerminatesWitness ==
    /\ last.op = "CdToRoot" /\ last.res = "Ok"
    /\ Depth(last.at) = 1
    /\ cursor = Root
    /\ \E f \in Nodes :
          /\ IsFile(f)
          /\ heap[f].parent = Some(last.at)
          /\ Depth(f) = 2
          /\ Walk(f, 1) = last.at
          /\ Walk(f, 2) = Root


\* ---------------------------------------------------------------------- C25
\* what the three queries return at node n of the tree h for threshold t
\* when the child maps are iterated in the order ord
ThreeValues(h, n, t, ord) ==
    <<calculate_size(build, h, n, ord),
      sum_directory_sizes_under_max(build, h, n, t, ord),
      smallest_directory_size_over_min(build, h, n, t, ord)>>

\* the size of the file of directory k of a tree of two directories
FileSizeIn(k) == heap[heap[heap[Root].children[k]].children[<<"a">>]].size

\* C25: calculate_size, sum_directory_sizes_under_max and
\* smallest_directory_size_over_min return the same values at every node
\* under every two iteration orders of the child maps, and at the root the
\* same values on the tree whose two directories were inserted in the other
\* order.
QueriesOrderIndependent ==
    /\ \A n \in Nodes, t \in QueryArgs,
          o1 \in orders_of(heap), o2 \in orders_of(heap) :
          ThreeValues(heap, n, t, o1) = ThreeValues(heap, n, t, o2)
    /\ \A first \in Names, t \in QueryArgs, o1 \in orders_of(heap) :
          LET other == two_directories(first, FileSizeIn(<<"a">>),
                                       FileSizeIn(<<"b">>))
          IN  \A o2 \in orders_of(other) :
                 ThreeValues(heap, Root, t, o1) = ThreeValues(other, Root, t, o2)

\* smallest_directory_size_over_min(0) has just been answered at the root of
\* a tree whose directories have the sizes 2 and 1: the list of sizes is
\* <<2, 1, 3>> in one order of the keys and <<1, 2, 3>> in the other, the
\* answer 1 in both
QueriesOrderIndependentWitness ==
    /\ last.op = "smallest_directory_size_over_min"
    /\ last.arg = 0
    /\ last.at = Root
    /\ last.res = Some(Some(1))
    /\ FileSizeIn(<<"a">>) = 2
    /\ FileSizeIn(<<"b">>) = 1
    /\ \E o1 \in orders_of(heap), o2 \in orders_of(heap) :
          /\ get_all_directory_sizes(build, heap, Root, o1)[1][1] = <<2, 1, 3>>
          /\ get_all_directory_sizes(build, heap, Root, o2)[1][1] = <<1, 2, 3>>


\* ---------------------------------------------------------------------- C26
\* the entry lines of a listing that have neither form
BadLines(files) ==
    {i \in 1..Len(files) : ~IsDirLine(files[i]) /\ ~IsFileLine(files[i])}

\* C26: when line k is the first entry line of an Ls that has neither form,
\* the Ls applied at a directory returns the syntax error, and the tree is
\* the one an Ls of the lines 1..k-1 alone leaves: their names are children
\* of the directory, and nothing comes from the lines after k.
PartialListing ==
    \A n \in {m \in Nodes : IsFolder(m)}, files \in LsProbes :
        BadLines(files) # {} =>
            LET k == CHOOSE i \in BadLines(files) :
                         \A j \in BadLines(files) : i <= j
                r == command(heap, live, n, Ls(files))
                before == command(heap, live, n, Ls(SubSeq(files, 1, k - 1)))
            IN  /\ ~r.ok
                /\ r.err = "Syntax"
                /\ before.ok
                /\ r.heap = before.heap
                /\ DOMAIN r.heap[n].children =
                      DOMAIN heap[n].children \cup
                      {EntryName(files[i]) : i \in 1..(k - 1)}


\* ---------------------------------------------------------------------- C27
\* the input lists one subdirectory in the root, `dir <name>`, and then
\* enters it with `cd <name>`
ListsThenEnters ==
    /\ Len(Pieces) = 2
    /\ from_line(Pieces[1]).ok
    /\ from_line(Pieces[1]).val.type = "Ls"
    /\ Len(from_line(Pieces[1]).val.files) = 1
    /\ IsDirLine(from_line(Pieces[1]).val.files[1])
    /\ trim(Pieces[2]) =
          <<"c", "d", " ">> \o EntryName(from_line(Pieces[1]).val.files[1])

\* C27: when the input lists one subdirectory, `dir <name>`, and then has
\* `cd <name>` with the same name, the command parses to CdIntoFolder of
\* exactly that name, and applying it succeeds and puts the cursor on the
\* subdirectory the listing created.
ListedNameCanBeEntered ==
    ListsThenEnters =>
        LET name == EntryName(from_line(Pieces[1]).val.files[1])
        IN  /\ last.op = "parse" => /\ last.res = "Ok"
                                    /\ last.arg[2] = Ok(CdIntoFolder(name))
            /\ last.op # "from_line"
            /\ last.op = "CdIntoFolder" =>
                   /\ last.res = "Ok"
                   /\ name \in DOMAIN heap[Root].children
                   /\ cursor = heap[Root].children[name]
                   /\ IsFolder(cursor)


\* ---------------------------------------------------------------------- C28
\* the marked cycles among the cycles lo+1 .. hi
MarkedBetween(lo, hi) ==
    {SIGNAL_STRENGTH_CYCLE_INTERVALS[k] :
        k \in {j \in DOMAIN SIGNAL_STRENGTH_CYCLE_INTERVALS :
                  /\ SIGNAL_STRENGTH_CYCLE_INTERVALS[j] > lo
                  /\ SIGNAL_STRENGTH_CYCLE_INTERVALS[j] <= hi}}
RECURSIVE SumOfSet(_)
SumOfSet(S) ==
    IF S = {} THEN 0
    ELSE LET c == CHOOSE c \in S : TRUE IN c + SumOfSet(S \ {c})

\* C28: a noop takes 1 cycle and an addx 2; x keeps its value through both
\* cycles of an addx and has the operand added once they have elapsed; and
\* the accumulator grows, at each marked cycle c the command runs through,
\* by c times the value x had when the command started, so that it always
\* is the sum of c * (x during cycle c) over the marked cycles reached.
CpuTiming ==
    [][cpu_ran' = cpu_ran + 1 =>
          LET cmd == cpu_script[cpu_ran + 1]
              cost == IF cmd.type = "Noop" THEN 1 ELSE 2
          IN  /\ cpu'.cycles = cpu.cycles + cost
              /\ cpu'.x = cpu.x + (IF cmd.type = "Noop" THEN 0 ELSE cmd.i)
              /\ cpu'.signal_strength_acc = cpu.signal_strength_acc +
                    cpu.x * SumOfSet(MarkedBetween(cpu.cycles, cpu'.cycles))
              /\ tick_cycles(build, cpu, cost).val.x = cpu.x]_vars

\* an addx with a non-zero operand has just completed at the marked cycle
\* 220, all six marked cycles having been accumulated
CpuTimingWitness ==
    /\ cpu # None
    /\ cpu.cycles = 220
    /\ cpu_ran > 0
    /\ cpu_script[cpu_ran].type = "Addx"
    /\ cpu_script[cpu_ran].i # 0
    /\ cpu.signal_strength_acc # 0
    /\ cpu.x # 1


\* ---------------------------------------------------------------------- C29
\* C29: a command that runs through the cycles c of cpu.cycles+1 ..
\* cpu'.cycles leaves, for each such c up to 240, the pixel c-1 lit exactly
\* when x, as it was during the cycle, is within 1 of the column
\* (c-1) mod 40, whatever the sign of x; no other pixel changes and the
\* pixels stay the 240 of the image.
PixelLitIffNearColumn ==
    [][cpu_ran' = cpu_ran + 1 =>
          /\ DOMAIN cpu'.pixel_array = 0..(IMG_WIDTH * IMG_HEIGHT - 1)
          /\ \A k \in DOMAIN cpu'.pixel_array :
                IF k + 1 > cpu.cycles /\ k + 1 <= cpu'.cycles
                THEN cpu'.pixel_array[k] <=>
                         /\ cpu.x >= (k % IMG_WIDTH) - 1
                         /\ cpu.x <= (k % IMG_WIDTH) + 1
                ELSE cpu'.pixel_array[k] = cpu.pixel_array[k]]_vars


\* ---------------------------------------------------------------------- C30
\* each knot is at most one square, in x and in y, from the knot before it
Tight(knots) ==
    \A k \in DOMAIN knots :
        (k + 1) \in DOMAIN knots =>
            /\ abs(knots[k][1] - knots[k + 1][1]) <= 1
            /\ abs(knots[k][2] - knots[k + 1][2]) <= 1
\* no knot is more than one square, in x and in y, from where it was
OneStep(before, after) ==
    /\ DOMAIN after = DOMAIN before
    /\ \A k \in DOMAIN before :
          /\ abs(after[k][1] - before[k][1]) <= 1
          /\ abs(after[k][2] - before[k][2]) <= 1

\* C30: whatever the length of the rope (at least 1), after each move_head
\* step of each call (the steps inside a move_head_many included) every knot
\* is within one square of the knot before it, and the step has moved every
\* knot by at most one square in each axis.
RopeStaysTight ==
    [][rope_script' # rope_script =>
          LET call == Head(rope_script)
          IN  /\ Cardinality(DOMAIN rope.rope_knots) >= 1
              /\ rope' = move_head_many(rope, call.direction, call.steps)
              /\ \A k \in 1..call.steps :
                    LET before ==
                            move_head_many(rope, call.direction, k - 1)
                        after == move_head(before, call.direction)
                    IN  /\ Tight(after.rope_knots)
                        /\ OneStep(before.rope_knots, after.rope_knots)]_vars

\* a rope of three knots whose head went right, up twice and right twice:
\* on the last step the second knot moved along a diagonal away from the
\* third, which was two squares off in x and in y and followed diagonally
RopeStaysTightWitness ==
    /\ rope # None
    /\ DOMAIN rope.rope_knots = 0..2
    /\ rope_script = <<>>
    /\ rope.rope_knots[0] = <<3, 2>>
    /\ rope.rope_knots[1] = <<2, 2>>
    /\ rope.rope_knots[2] = <<1, 1>>
    /\ get_unique_tail_visits(rope) = 2


\* ---------------------------------------------------------------------- C31
\* the squares of a trail
Squares(trail) == {trail[k] : k \in DOMAIN trail}
\* the last knot of a rope
Tail_knot(r) == r.rope_knots[Cardinality(DOMAIN r.rope_knots) - 1]
\* a trail in the order of (i32, i32), strictly: no square twice
StrictlySorted(trail) ==
    \A j, k \in DOMAIN trail : j < k => tuple_lt(trail[j], trail[k])

\* C31: the trail starts as the one square (0,0); every call leaves it
\* strictly sorted (so free of duplicates) and holding exactly the squares
\* it held plus the squares the last knot is on after each move_head step
\* of the call; so get_unique_tail_visits always is the number of distinct
\* squares the last knot has occupied, the start included.
TrailIsSortedSetOfVisits ==
    /\ rope # None => /\ rope.tail_position_trail = <<<<0, 0>>>>
                      /\ Tail_knot(rope) = <<0, 0>>
    /\ [][rope_script' # rope_script =>
             LET call == Head(rope_script)
                 visited == {Tail_knot(move_head_many(rope, call.direction, k)) :
                                k \in 1..call.steps}
             IN  /\ StrictlySorted(rope'.tail_position_trail)
                 /\ Squares(rope'.tail_position_trail) =
                       Squares(rope.tail_position_trail) \cup visited
                 /\ get_unique_tail_visits(rope') =
                       Cardinality(Squares(rope.tail_position_trail)
                                      \cup visited)]_vars

\* the one knot of a rope went right, back onto the start and on to the
\* left: the start was visited twice and is counted once, and the last
\* square was inserted at the front of the trail
TrailIsSortedSetOfVisitsWitness ==
    /\ rope # None
    /\ DOMAIN rope.rope_knots = {0}
    /\ rope_script = <<>>
    /\ rope.rope_knots[0] = <<-1, 0>>
    /\ rope.tail_position_trail = <<<<-1, 0>>, <<0, 0>>, <<1, 0>>>>
    /\ get_unique_tail_visits(rope) = 3


\* ---------------------------------------------------------------------- C32
\* how many times item x lies on the stacks k, k+1, ...
RECURSIVE ItemCount(_, _, _)
ItemCount(c, x, k) ==
    IF k \notin DOMAIN c.stacks THEN 0
    ELSE Count(c.stacks[k], x) + ItemCount(c, x, k + 1)
\* the items on the stacks
ItemsOf(c) == UNION {{c.stacks[k][j] : j \in DOMAIN c.stacks[k]} :
                       k \in DOMAIN c.stacks}
\* two cargos hold the same items, each as many times
SameBag(c, d) ==
    /\ ItemsOf(c) = ItemsOf(d)
    /\ \A x \in ItemsOf(c) : ItemCount(c, x, 0) = ItemCount(d, x, 0)
\* the call just made was move_top_n_items_between_stacks
GroupMoved ==
    /\ cargo_last' # cargo_last
    /\ cargo_last'.op = "move_top_n_items_between_stacks"

\* C32: a group move between two different stacks, with at least n items
\* on the stack taken from, returns Ok, takes the top n items off that stack
\* and puts them on the other in the order they had, leaves the other
\* stacks alone and keeps the bag of all items; a group move from a stack
\* to itself changes nothing.
GroupMoveKeepsOrder ==
    [][GroupMoved =>
          LET from_ind == cargo_last'.arg[1]
              to_ind == cargo_last'.arg[2]
              n == cargo_last'.arg[3]
              old == cargo.stacks
              now == cargo'.stacks
          IN  /\ (/\ from_ind \in DOMAIN old
                  /\ to_ind \in DOMAIN old
                  /\ from_ind # to_ind
                  /\ Len(old[from_ind]) >= n) =>
                     /\ cargo_last'.res = "Ok"
                     /\ DOMAIN now = DOMAIN old
                     /\ now[from_ind] =
                           SubSeq(old[from_ind], 1, Len(old[from_ind]) - n)
                     /\ now[to_ind] = old[to_ind] \o
                           SubSeq(old[from_ind], Len(old[from_ind]) - n + 1,
                                  Len(old[from_ind]))
                     /\ \A k \in DOMAIN old :
                           k \notin {from_ind, to_ind} => now[k] = old[k]
                     /\ SameBag(cargo', cargo)
              /\ (from_ind \in DOMAIN old /\ from_ind = to_ind) =>
                     cargo' = cargo]_vars

\* two items were taken together off the first stack and put on the third,
\* past a second stack that holds an item, or the other way round: they lie
\* on the stack moved to in the order they had
GroupMoveKeepsOrderWitness ==
    /\ cargo # None
    /\ cargo_last.op = "move_top_n_items_between_stacks"
    /\ cargo_last.res = "Ok"
    /\ cargo_last.arg[3] = 2
    /\ {cargo_last.arg[1], cargo_last.arg[2]} = {0, 2}
    /\ 2 \in DOMAIN cargo.stacks
    /\ cargo.stacks[1] # <<>>
    /\ Len(cargo.stacks[cargo_last.arg[2]]) = 2
    /\ cargo.stacks[cargo_last.arg[2]][1] # cargo.stacks[cargo_last.arg[2]][2]


\* ---------------------------------------------------------------------- C33
\* C33: a group move of n items from a stack that holds fewer than n
\* returns StackTooSmallError and leaves every stack as it was, whatever
\* the index moved to.
TooSmallChangesNothing ==
    [][GroupMoved =>
          LET from_ind == cargo_last'.arg[1]
              n == cargo_last'.arg[3]
          IN  (/\ from_ind \in DOMAIN cargo.stacks
               /\ Len(cargo.stacks[from_ind]) < n) =>
                  /\ cargo_last'.res = "StackTooSmallError"
                  /\ cargo' = cargo]_vars

\* three items were asked of a stack that holds two, next to a stack that
\* holds one: the error came back
TooSmallChangesNothingWitness ==
    /\ cargo # None
    /\ cargo_last.op = "move_top_n_items_between_stacks"
    /\ cargo_last.res = "StackTooSmallError"
    /\ cargo_last.arg[3] = 3
    /\ cargo_last.arg[1] # cargo_last.arg[2]
    /\ cargo_last.arg[2] \in DOMAIN cargo.stacks
    /\ Len(cargo.stacks[cargo_last.arg[1]]) = 2
    /\ Len(cargo.stacks[cargo_last.arg[2]]) = 1


\* ---------------------------------------------------------------------- C34
\* the marker_length characters that end at the 1-based position p are
\* there and pairwise distinct
DistinctBefore(p) ==
    /\ p >= marker_length
    /\ p <= Len(stream)
    /\ \A j, k \in (p - marker_length + 1)..p :
          j # k => stream[j] # stream[k]
MarkerPositions == {p \in 1..Len(stream) : DistinctBefore(p)}

\* C34: for a marker length of at least 1, get_start_marker returns Some(p)
\* for the smallest position p at which the marker_length characters ending
\* there are pairwise distinct, and None when there is no such position.
StartMarkerIsFirstDistinctWindow ==
    (start_marker.returned /\ marker_length >= 1) =>
        /\ start_marker.res.ok
        /\ IF MarkerPositions = {} THEN start_marker.res.val = None
           ELSE start_marker.res.val =
                   Some(CHOOSE p \in MarkerPositions :
                           \A q \in MarkerPositions : p <= q)

\* a stream whose first window of three distinct characters ends at the
\* last of five characters, after windows whose first and last are equal
StartMarkerIsFirstDistinctWindowWitness ==
    /\ start_marker.returned
    /\ marker_length = 3
    /\ stream = <<"a", "b", "a", "b", "c">>
    /\ start_marker.res = Ok(Some(5))


\* ---------------------------------------------------------------------- C35
\* the number of day solvers
Days == Cardinality(DOMAIN functions)
\* the process was given no argument, or the number of one day
AsksForAll == argv = <<>>
AsksForDay(N) == argv = <<ArgText(N)>>
\* the solver calls the claim has made, in order
CallsAsked ==
    IF AsksForAll
    THEN [k \in 1..(2 * Days) |->
             [day |-> ((k - 1) \div 2) + 1, part_2 |-> (k - 1) % 2 = 1]]
    ELSE LET N == CHOOSE N \in 1..Days : AsksForDay(N)
         IN  <<[day |-> N, part_2 |-> FALSE], [day |-> N, part_2 |-> TRUE]>>

\* C35: without an argument the solvers of day 1 to day 10 are called in
\* order, with the number N of a day as the one argument only the solver of
\* day N is called; each is called for part 1 and then part 2; a call is
\* made only after every call before it returned Ok, and the process exits
\* with 0 only after all the calls asked for.
DispatchRunsWhatWasAsked ==
    (main_pc # "idle" /\ (AsksForAll \/ \E N \in 1..Days : AsksForDay(N))) =>
        /\ Len(ran) <= Len(CallsAsked)
        /\ \A k \in DOMAIN ran :
              /\ k <= Len(CallsAsked)
              /\ ran[k].day = CallsAsked[k].day
              /\ ran[k].part_2 = CallsAsked[k].part_2
              /\ k < Len(ran) => ran[k].res = "Ok"
        /\ main_pc \in {"exit", "panic"} => ran # <<>>
        /\ exit_code = Some(0) =>
              /\ Len(ran) = Len(CallsAsked)
              /\ \A k \in DOMAIN ran : ran[k].res = "Ok"

====
